---- MODULE Spec2Model ----
(***************************************************************************)
(* A model of the safety layer of rust-GSL: the error taxonomy             *)
(* (src/src/error.rs, Error::handle / Error::to_c), the global error       *)
(* handler registry (set_handler, set_handler_off, inner_error_handler)    *)
(* and the call-through pattern that decodes the native status code.       *)
(***************************************************************************)
EXTENDS Integers, Sequences, FiniteSets, TLC

VARIABLES
    \* ---- error codec (Error::handle / Error::to_c applied to an input) ----
    dir,        \* "c2e": code -> Result -> code;  "e2c": Result -> code -> Result
    code,       \* the c_int given to Error::handle
    res,        \* the Result given to Error::to_c
    code2,      \* c2e: Error::to_c(res)
    res2,       \* e2c: Error::handle(code, ())
    pcCodec,    \* "idle" | "start" | "mid" | "done"
    \* ---- global error-handler registry ----
    CALLBACK,           \* static mut CALLBACK: Option<fn(..)>
    gsl_error_handler,  \* the hook installed in the native library
    lastCall,           \* the latest completed set_handler / set_handler_off call
    prevCall,           \* the call completed before lastCall
    report,             \* the native error reports delivered since lastCall
    invoked,            \* the Rust callback invocations they caused
    ct,                 \* the latest call-through (K0_e) and what it returned
    aborted,            \* the native default handler has aborted the process
    \* ---- resource handle wrappers ----
    owner,      \* per wrapper: "unallocated" | "none" | "live" | "dropped"
    shared,     \* per wrapper: the number of live shared views
    excl,       \* per wrapper: the number of live exclusive views
    freed,      \* per wrapper: the calls of its native free routine
    data,       \* per vector: its elements
    readback,   \* per vector: what the shared views read since the last write access
    call,       \* the call-through whose native routine is running
    cres,       \* what the latest call-through returned
    ptr,        \* per wrapper: the handle its native allocation routine returned
    made,       \* per wrapper: what its constructor returned
    \* ---- call-throughs taking lengths, dimensions and native statuses ----
    rt,         \* the routine called last
    arg,        \* its arguments (the lengths of the views, the dimensions)
    ncalls,     \* how many times it invoked its native routine
    nstatus,    \* what the native routine returned
    result,     \* what the routine returned to its caller
    oob,        \* the native routine addressed an element outside a slice
    \* ---- domain enum transcoders (Into / From applied to an input) ----
    en,         \* the enum
    edir,       \* "to": variant -> native -> variant; "from": native -> variant -> native
    evar,       \* the variant given to into(), or returned by from()
    ecode,      \* the native integer given to from(), or returned by into()
    evar2,      \* "to": from(ecode)
    ecode2,     \* "from": into(evar)
    pcEnum,     \* "idle" | "start" | "mid" | "done" | "panicked"
    \* ---- two threads calling set_handler / set_handler_off ----
    tpc,        \* per thread: its position in the call
    tcall,      \* per thread: the call it makes
    tout,       \* per thread: its local `out`
    tret,       \* per thread: what its call returned
    tlog,       \* the calls in the order they began and ended
    tinit,      \* the registry when the threads started
    \* ---- array-taking call-throughs (sf::mathieu, bessel, coulomb, PolyDD) ----
    poly,       \* the PolyDD value the constructor returned: lengths of dd and x
    npass,      \* the bounds and sizes the routine handed to its native routine
    \* ---- the modified-Givens parameter (cblas rotm / rotmg) ----
    gh,         \* the H value given to rotm
    gp,         \* the 5-element parameter array
    gh2,        \* the H value the flag dispatch of rotmg makes of gp
    pcGiv       \* "idle" | "start" | "built" | "done"

codecVars == <<dir, code, res, code2, res2, pcCodec>>
handlerVars ==
    <<CALLBACK, gsl_error_handler, lastCall, prevCall, report, invoked, ct, aborted>>
ownVars == <<owner, shared, excl, freed, data, readback, call, cres, ptr, made>>
callVars == <<rt, arg, ncalls, nstatus, result, oob>>
enumVars == <<en, edir, evar, ecode, evar2, ecode2, pcEnum>>
thrVars == <<tpc, tcall, tout, tret, tlog, tinit>>
arrVars == <<poly, npass>>
givVars == <<gh, gp, gh2, pcGiv>>
restVars == <<callVars, enumVars, thrVars, arrVars, givVars>>
vars == <<codecVars, handlerVars, ownVars, restVars>>

(***************************************************************************)
(* Bounds of the model.                                                    *)
(***************************************************************************)
\* status codes -MaxCode .. MaxCode are given to Error::handle, with the two
\* ends of the i32 range; the named codes are -2 .. 32.
MaxCode == 34

(***************************************************************************)
(* c_int is a 32-bit signed integer.                                       *)
(***************************************************************************)
I32_MAX == 2147483647
I32_MIN == -I32_MAX - 1
c_int == I32_MIN .. I32_MAX

(***************************************************************************)
(* The native status codes, as the build binds them from gsl_errno.h.      *)
(***************************************************************************)
sys ==
    [ GSL_SUCCESS |-> 0,   GSL_FAILURE |-> -1,  GSL_CONTINUE |-> -2,
      GSL_EDOM |-> 1,      GSL_ERANGE |-> 2,    GSL_EFAULT |-> 3,
      GSL_EINVAL |-> 4,    GSL_EFAILED |-> 5,   GSL_EFACTOR |-> 6,
      GSL_ESANITY |-> 7,   GSL_ENOMEM |-> 8,    GSL_EBADFUNC |-> 9,
      GSL_ERUNAWAY |-> 10, GSL_EMAXITER |-> 11, GSL_EZERODIV |-> 12,
      GSL_EBADTOL |-> 13,  GSL_ETOL |-> 14,     GSL_EUNDRFLW |-> 15,
      GSL_EOVRFLW |-> 16,  GSL_ELOSS |-> 17,    GSL_EROUND |-> 18,
      GSL_EBADLEN |-> 19,  GSL_ENOTSQR |-> 20,  GSL_ESING |-> 21,
      GSL_EDIVERGE |-> 22, GSL_EUNSUP |-> 23,   GSL_EUNIMPL |-> 24,
      GSL_ECACHE |-> 25,   GSL_ETABLE |-> 26,   GSL_ENOPROG |-> 27,
      GSL_ENOPROGJ |-> 28, GSL_ETOLF |-> 29,    GSL_ETOLX |-> 30,
      GSL_ETOLG |-> 31,    GSL_EOF |-> 32 ]

\* the named failure codes (every bound constant but GSL_SUCCESS)
NamedCodes == { sys[n] : n \in DOMAIN sys } \ { sys.GSL_SUCCESS }

(***************************************************************************)
(* enum Error: the named variants and Unknown(i32).                        *)
(***************************************************************************)
NamedKinds ==
    { "Failure", "Continue", "Domain", "Range", "Fault", "Invalid", "Failed",
      "Factorization", "Sanity", "NoMemory", "BadFunction", "RunAway",
      "MaxIteration", "ZeroDiv", "BadTolerance", "Tolerance", "UnderFlow",
      "OverFlow", "Loss", "Round", "BadLength", "NotSquare", "Singularity",
      "Diverge", "Unsupported", "Unimplemented", "Cache", "Table",
      "NoProgress", "NoProgressJacobian", "ToleranceF", "ToleranceX",
      "ToleranceG", "EOF" }

Named(k) == [kind |-> k]
Unknown(x) == [kind |-> "Unknown", code |-> x]
NamedErrors == { Named(k) : k \in NamedKinds }

\* Result<T, Error>
Ok(x) == [ok |-> TRUE, val |-> x]
Err(e) == [ok |-> FALSE, err |-> e]
Unit == "()"

\* Error::handle with the GSL_ETOLG arm copied from the arm above it.
handle_slip(v, x) ==
    CASE v = sys.GSL_SUCCESS -> Ok(x)
      [] v = sys.GSL_FAILURE -> Err(Named("Failure"))
      [] v = sys.GSL_CONTINUE -> Err(Named("Continue"))
      [] v = sys.GSL_EDOM -> Err(Named("Domain"))
      [] v = sys.GSL_ERANGE -> Err(Named("Range"))
      [] v = sys.GSL_EFAULT -> Err(Named("Fault"))
      [] v = sys.GSL_EINVAL -> Err(Named("Invalid"))
      [] v = sys.GSL_EFAILED -> Err(Named("Failed"))
      [] v = sys.GSL_EFACTOR -> Err(Named("Factorization"))
      [] v = sys.GSL_ESANITY -> Err(Named("Sanity"))
      [] v = sys.GSL_ENOMEM -> Err(Named("NoMemory"))
      [] v = sys.GSL_EBADFUNC -> Err(Named("BadFunction"))
      [] v = sys.GSL_ERUNAWAY -> Err(Named("RunAway"))
      [] v = sys.GSL_EMAXITER -> Err(Named("MaxIteration"))
      [] v = sys.GSL_EZERODIV -> Err(Named("ZeroDiv"))
      [] v = sys.GSL_EBADTOL -> Err(Named("BadTolerance"))
      [] v = sys.GSL_ETOL -> Err(Named("Tolerance"))
      [] v = sys.GSL_EUNDRFLW -> Err(Named("UnderFlow"))
      [] v = sys.GSL_EOVRFLW -> Err(Named("OverFlow"))
      [] v = sys.GSL_ELOSS -> Err(Named("Loss"))
      [] v = sys.GSL_EROUND -> Err(Named("Round"))
      [] v = sys.GSL_EBADLEN -> Err(Named("BadLength"))
      [] v = sys.GSL_ENOTSQR -> Err(Named("NotSquare"))
      [] v = sys.GSL_ESING -> Err(Named("Singularity"))
      [] v = sys.GSL_EDIVERGE -> Err(Named("Diverge"))
      [] v = sys.GSL_EUNSUP -> Err(Named("Unsupported"))
      [] v = sys.GSL_EUNIMPL -> Err(Named("Unimplemented"))
      [] v = sys.GSL_ECACHE -> Err(Named("Cache"))
      [] v = sys.GSL_ETABLE -> Err(Named("Table"))
      [] v = sys.GSL_ENOPROG -> Err(Named("NoProgress"))
      [] v = sys.GSL_ENOPROGJ -> Err(Named("NoProgressJacobian"))
      [] v = sys.GSL_ETOLF -> Err(Named("ToleranceF"))
      [] v = sys.GSL_ETOLX -> Err(Named("ToleranceX"))
      [] v = sys.GSL_ETOLG -> Err(Named("ToleranceX"))
      [] v = sys.GSL_EOF -> Err(Named("EOF"))
      [] OTHER -> Err(Unknown(v))

\* Error::handle whose catch-all arm drops the code it was given.
handle_other(v, x) ==
    CASE v = sys.GSL_SUCCESS -> Ok(x)
      [] v = sys.GSL_FAILURE -> Err(Named("Failure"))
      [] v = sys.GSL_CONTINUE -> Err(Named("Continue"))
      [] v = sys.GSL_EDOM -> Err(Named("Domain"))
      [] v = sys.GSL_ERANGE -> Err(Named("Range"))
      [] v = sys.GSL_EFAULT -> Err(Named("Fault"))
      [] v = sys.GSL_EINVAL -> Err(Named("Invalid"))
      [] v = sys.GSL_EFAILED -> Err(Named("Failed"))
      [] v = sys.GSL_EFACTOR -> Err(Named("Factorization"))
      [] v = sys.GSL_ESANITY -> Err(Named("Sanity"))
      [] v = sys.GSL_ENOMEM -> Err(Named("NoMemory"))
      [] v = sys.GSL_EBADFUNC -> Err(Named("BadFunction"))
      [] v = sys.GSL_ERUNAWAY -> Err(Named("RunAway"))
      [] v = sys.GSL_EMAXITER -> Err(Named("MaxIteration"))
      [] v = sys.GSL_EZERODIV -> Err(Named("ZeroDiv"))
      [] v = sys.GSL_EBADTOL -> Err(Named("BadTolerance"))
      [] v = sys.GSL_ETOL -> Err(Named("Tolerance"))
      [] v = sys.GSL_EUNDRFLW -> Err(Named("UnderFlow"))
      [] v = sys.GSL_EOVRFLW -> Err(Named("OverFlow"))
      [] v = sys.GSL_ELOSS -> Err(Named("Loss"))
      [] v = sys.GSL_EROUND -> Err(Named("Round"))
      [] v = sys.GSL_EBADLEN -> Err(Named("BadLength"))
      [] v = sys.GSL_ENOTSQR -> Err(Named("NotSquare"))
      [] v = sys.GSL_ESING -> Err(Named("Singularity"))
      [] v = sys.GSL_EDIVERGE -> Err(Named("Diverge"))
      [] v = sys.GSL_EUNSUP -> Err(Named("Unsupported"))
      [] v = sys.GSL_EUNIMPL -> Err(Named("Unimplemented"))
      [] v = sys.GSL_ECACHE -> Err(Named("Cache"))
      [] v = sys.GSL_ETABLE -> Err(Named("Table"))
      [] v = sys.GSL_ENOPROG -> Err(Named("NoProgress"))
      [] v = sys.GSL_ENOPROGJ -> Err(Named("NoProgressJacobian"))
      [] v = sys.GSL_ETOLF -> Err(Named("ToleranceF"))
      [] v = sys.GSL_ETOLX -> Err(Named("ToleranceX"))
      [] v = sys.GSL_ETOLG -> Err(Named("ToleranceG"))
      [] v = sys.GSL_EOF -> Err(Named("EOF"))
      [] OTHER -> Err(Named("Failure"))

(***************************************************************************)
(* Error::handle: the native status code to Result<T, Error>.              *)
(***************************************************************************)
handle(v, x) ==
    CASE v = sys.GSL_SUCCESS -> Ok(x)
      [] v = sys.GSL_FAILURE -> Err(Named("Failure"))
      [] v = sys.GSL_CONTINUE -> Err(Named("Continue"))
      [] v = sys.GSL_EDOM -> Err(Named("Domain"))
      [] v = sys.GSL_ERANGE -> Err(Named("Range"))
      [] v = sys.GSL_EFAULT -> Err(Named("Fault"))
      [] v = sys.GSL_EINVAL -> Err(Named("Invalid"))
      [] v = sys.GSL_EFAILED -> Err(Named("Failed"))
      [] v = sys.GSL_EFACTOR -> Err(Named("Factorization"))
      [] v = sys.GSL_ESANITY -> Err(Named("Sanity"))
      [] v = sys.GSL_ENOMEM -> Err(Named("NoMemory"))
      [] v = sys.GSL_EBADFUNC -> Err(Named("BadFunction"))
      [] v = sys.GSL_ERUNAWAY -> Err(Named("RunAway"))
      [] v = sys.GSL_EMAXITER -> Err(Named("MaxIteration"))
      [] v = sys.GSL_EZERODIV -> Err(Named("ZeroDiv"))
      [] v = sys.GSL_EBADTOL -> Err(Named("BadTolerance"))
      [] v = sys.GSL_ETOL -> Err(Named("Tolerance"))
      [] v = sys.GSL_EUNDRFLW -> Err(Named("UnderFlow"))
      [] v = sys.GSL_EOVRFLW -> Err(Named("OverFlow"))
      [] v = sys.GSL_ELOSS -> Err(Named("Loss"))
      [] v = sys.GSL_EROUND -> Err(Named("Round"))
      [] v = sys.GSL_EBADLEN -> Err(Named("BadLength"))
      [] v = sys.GSL_ENOTSQR -> Err(Named("NotSquare"))
      [] v = sys.GSL_ESING -> Err(Named("Singularity"))
      [] v = sys.GSL_EDIVERGE -> Err(Named("Diverge"))
      [] v = sys.GSL_EUNSUP -> Err(Named("Unsupported"))
      [] v = sys.GSL_EUNIMPL -> Err(Named("Unimplemented"))
      [] v = sys.GSL_ECACHE -> Err(Named("Cache"))
      [] v = sys.GSL_ETABLE -> Err(Named("Table"))
      [] v = sys.GSL_ENOPROG -> Err(Named("NoProgress"))
      [] v = sys.GSL_ENOPROGJ -> Err(Named("NoProgressJacobian"))
      [] v = sys.GSL_ETOLF -> Err(Named("ToleranceF"))
      [] v = sys.GSL_ETOLX -> Err(Named("ToleranceX"))
      [] v = sys.GSL_ETOLG -> Err(Named("ToleranceG"))
      [] v = sys.GSL_EOF -> Err(Named("EOF"))
      [] OTHER -> Err(Unknown(v))

\* to_c encoding every Unknown(n) as GSL_FAILURE
to_c_unknown_failure(x) ==
    IF x.ok THEN sys.GSL_SUCCESS
    ELSE LET k == x.err.kind
         IN
         CASE k = "Failure" -> sys.GSL_FAILURE
           [] k = "Continue" -> sys.GSL_CONTINUE
           [] k = "Domain" -> sys.GSL_EDOM
           [] k = "Range" -> sys.GSL_ERANGE
           [] k = "Fault" -> sys.GSL_EFAULT
           [] k = "Invalid" -> sys.GSL_EINVAL
           [] k = "Failed" -> sys.GSL_EFAILED
           [] k = "Factorization" -> sys.GSL_EFACTOR
           [] k = "Sanity" -> sys.GSL_ESANITY
           [] k = "NoMemory" -> sys.GSL_ENOMEM
           [] k = "BadFunction" -> sys.GSL_EBADFUNC
           [] k = "RunAway" -> sys.GSL_ERUNAWAY
           [] k = "MaxIteration" -> sys.GSL_EMAXITER
           [] k = "ZeroDiv" -> sys.GSL_EZERODIV
           [] k = "BadTolerance" -> sys.GSL_EBADTOL
           [] k = "Tolerance" -> sys.GSL_ETOL
           [] k = "UnderFlow" -> sys.GSL_EUNDRFLW
           [] k = "OverFlow" -> sys.GSL_EOVRFLW
           [] k = "Loss" -> sys.GSL_ELOSS
           [] k = "Round" -> sys.GSL_EROUND
           [] k = "BadLength" -> sys.GSL_EBADLEN
           [] k = "NotSquare" -> sys.GSL_ENOTSQR
           [] k = "Singularity" -> sys.GSL_ESING
           [] k = "Diverge" -> sys.GSL_EDIVERGE
           [] k = "Unsupported" -> sys.GSL_EUNSUP
           [] k = "Unimplemented" -> sys.GSL_EUNIMPL
           [] k = "Cache" -> sys.GSL_ECACHE
           [] k = "Table" -> sys.GSL_ETABLE
           [] k = "NoProgress" -> sys.GSL_ENOPROG
           [] k = "NoProgressJacobian" -> sys.GSL_ENOPROGJ
           [] k = "ToleranceF" -> sys.GSL_ETOLF
           [] k = "ToleranceX" -> sys.GSL_ETOLX
           [] k = "ToleranceG" -> sys.GSL_ETOLG
           [] k = "EOF" -> sys.GSL_EOF
           [] k = "Unknown" -> sys.GSL_FAILURE

(***************************************************************************)
(* Error::to_c: Result<(), Error> to the native status code.               *)
(***************************************************************************)
to_c(x) ==
    IF x.ok THEN sys.GSL_SUCCESS
    ELSE LET k == x.err.kind
         IN
         CASE k = "Failure" -> sys.GSL_FAILURE
           [] k = "Continue" -> sys.GSL_CONTINUE
           [] k = "Domain" -> sys.GSL_EDOM
           [] k = "Range" -> sys.GSL_ERANGE
           [] k = "Fault" -> sys.GSL_EFAULT
           [] k = "Invalid" -> sys.GSL_EINVAL
           [] k = "Failed" -> sys.GSL_EFAILED
           [] k = "Factorization" -> sys.GSL_EFACTOR
           [] k = "Sanity" -> sys.GSL_ESANITY
           [] k = "NoMemory" -> sys.GSL_ENOMEM
           [] k = "BadFunction" -> sys.GSL_EBADFUNC
           [] k = "RunAway" -> sys.GSL_ERUNAWAY
           [] k = "MaxIteration" -> sys.GSL_EMAXITER
           [] k = "ZeroDiv" -> sys.GSL_EZERODIV
           [] k = "BadTolerance" -> sys.GSL_EBADTOL
           [] k = "Tolerance" -> sys.GSL_ETOL
           [] k = "UnderFlow" -> sys.GSL_EUNDRFLW
           [] k = "OverFlow" -> sys.GSL_EOVRFLW
           [] k = "Loss" -> sys.GSL_ELOSS
           [] k = "Round" -> sys.GSL_EROUND
           [] k = "BadLength" -> sys.GSL_EBADLEN
           [] k = "NotSquare" -> sys.GSL_ENOTSQR
           [] k = "Singularity" -> sys.GSL_ESING
           [] k = "Diverge" -> sys.GSL_EDIVERGE
           [] k = "Unsupported" -> sys.GSL_EUNSUP
           [] k = "Unimplemented" -> sys.GSL_EUNIMPL
           [] k = "Cache" -> sys.GSL_ECACHE
           [] k = "Table" -> sys.GSL_ETABLE
           [] k = "NoProgress" -> sys.GSL_ENOPROG
           [] k = "NoProgressJacobian" -> sys.GSL_ENOPROGJ
           [] k = "ToleranceF" -> sys.GSL_ETOLF
           [] k = "ToleranceX" -> sys.GSL_ETOLX
           [] k = "ToleranceG" -> sys.GSL_ETOLG
           [] k = "EOF" -> sys.GSL_EOF
           [] k = "Unknown" -> x.err.code

(***************************************************************************)
(* C strings and their conversion to &str.  A C string is its bytes;       *)
(* CStr::to_str succeeds exactly on well-formed UTF-8.                     *)
(***************************************************************************)
Cont(b) == b >= 128 /\ b <= 191

RECURSIVE Utf8Valid(_)
Utf8Valid(s) ==
    IF s = <<>> THEN TRUE
    ELSE LET b == s[1]
             n == Len(s)
         IN
         IF b < 128 THEN Utf8Valid(Tail(s))
         ELSE IF b >= 194 /\ b <= 223
              THEN n >= 2 /\ Cont(s[2]) /\ Utf8Valid(SubSeq(s, 3, n))
         ELSE IF b >= 224 /\ b <= 239
              THEN /\ n >= 3
                   /\ Cont(s[2]) /\ Cont(s[3])
                   /\ (b = 224 => s[2] >= 160)
                   /\ (b = 237 => s[2] <= 159)
                   /\ Utf8Valid(SubSeq(s, 4, n))
         ELSE IF b >= 240 /\ b <= 244
              THEN /\ n >= 4
                   /\ Cont(s[2]) /\ Cont(s[3]) /\ Cont(s[4])
                   /\ (b = 240 => s[2] >= 144)
                   /\ (b = 244 => s[2] <= 143)
                   /\ Utf8Valid(SubSeq(s, 5, n))
         ELSE FALSE

to_str(s) == IF Utf8Valid(s) THEN Ok(s) ELSE Err("Utf8Error")
unwrap_or(r, default) == IF r.ok THEN r.val ELSE default

\* the text "Unknown"
UnknownStr == <<85, 110, 107, 110, 111, 119, 110>>

\* A u32 is held as its two 16-bit halves (value = hi * 65536 + lo).
\* `line as u32`: the c_int reinterpreted as an unsigned 32-bit integer,
\* n for n >= 0 and 2^32 + n = 2^31 + (n + 2^31) for n < 0.
as_u32(n) ==
    IF n >= 0
    THEN [hi |-> n \div 65536, lo |-> n % 65536]
    ELSE LET m == (n + I32_MAX) + 1
         IN [hi |-> 32768 + (m \div 65536), lo |-> m % 65536]

(***************************************************************************)
(* The handler registry.                                                   *)
(***************************************************************************)
None == "None"
\* the user callbacks a program registers (fn pointers)
Callbacks == {"f", "g"}

\* what the native library's hook can be: NULL is the library's default
\* (print the message and abort), no_error_handler its do-nothing handler,
\* inner_error_handler the Rust adapter.
Hooks == {"NULL", "no_error_handler", "inner_error_handler"}

NoCall == [op |-> "none", arg |-> None, ret |-> None,
           pre |-> [cb |-> None, hook |-> "NULL"]]

\* the text of the reports the native library delivers
S_underflow == <<117, 110, 100, 101, 114, 102, 108, 111, 119>>
S_domain == <<100, 111, 109, 97, 105, 110, 32, 101, 114, 114, 111, 114>>
S_accent == <<101, 114, 114, 32, 195, 169>>
S_latin1 == <<101, 114, 114, 32, 233>>
S_file == <<98, 101, 115, 115, 101, 108, 95, 75, 48, 46, 99>>
S_file_latin1 == <<233, 46, 99>>

Report(reason, file, line, errno) ==
    [reason |-> reason, file |-> file, line |-> line, gsl_errno |-> errno]

R_underflow == Report(S_underflow, S_file, 120, sys.GSL_EUNDRFLW)
R_domain == Report(S_domain, S_file, 58, sys.GSL_EDOM)

\* the reports gsl_error is called with: failures, a report carrying the
\* success code, an unrecognised code, text that is not UTF-8, a negative line
Reports ==
    { R_underflow, R_domain,
      Report(S_underflow, S_file, 1, sys.GSL_SUCCESS),
      Report(S_accent, S_file, 7, 77),
      Report(S_latin1, S_file, 120, sys.GSL_EUNDRFLW),
      Report(S_underflow, S_file_latin1, 120, sys.GSL_FAILURE),
      Report(S_underflow, S_file, -1, sys.GSL_EINVAL) }

Pre == [cb |-> CALLBACK, hook |-> gsl_error_handler]

NoCT == [x |-> -1, returned |-> FALSE, ret |-> Ok("none")]

\* at most MaxReports native error reports are delivered between two handler calls
MaxReports == 2

\* the arguments K0_e is called with (0.0, 1.0 and 1e3)
K0Args == {0, 1, 1000}

(***************************************************************************)
(* The native library's side of the hook.                                  *)
(***************************************************************************)
\* gsl_set_error_handler(new_handler): NULL (None) is the default handler
gsl_set_error_handler(new_handler) ==
    gsl_error_handler' = (IF new_handler = None THEN "NULL" ELSE new_handler)

\* gsl_set_error_handler_off(): installs the handler that does nothing
gsl_set_error_handler_off == gsl_error_handler' = "no_error_handler"

(***************************************************************************)
(* inner_error_handler: the invocations of the stored callback that one    *)
(* report causes.                                                          *)
(***************************************************************************)
\* the adapter calling the callback on the success code too
inner_error_handler_always(reason, file, line, gsl_errno) ==
    IF CALLBACK # None
    THEN LET s == to_str(reason)
             f == to_str(file)
             r == handle(gsl_errno, Unit)
         IN << [ cb |-> CALLBACK,
                 reason |-> unwrap_or(s, UnknownStr),
                 file |-> unwrap_or(f, UnknownStr),
                 line |-> as_u32(line),
                 err |-> IF r.ok THEN Unknown(gsl_errno) ELSE r.err ] >>
    ELSE <<>>

inner_error_handler(reason, file, line, gsl_errno) ==
    IF CALLBACK # None
    THEN LET s == to_str(reason)
             f == to_str(file)
             r == handle(gsl_errno, Unit)
         IN IF ~r.ok
            THEN << [ cb |-> CALLBACK,
                      reason |-> unwrap_or(s, UnknownStr),
                      file |-> unwrap_or(f, UnknownStr),
                      line |-> as_u32(line),
                      err |-> r.err ] >>
            ELSE <<>>
    ELSE <<>>

\* gsl_error(reason, file, line, gsl_errno): the library calls the installed
\* hook, or with none installed prints the message and aborts
gsl_error(r) ==
    /\ report' = Append(report, r)
    /\ IF gsl_error_handler = "NULL"
       THEN aborted' = TRUE /\ invoked' = invoked
       ELSE /\ aborted' = aborted
            /\ invoked' =
                 IF gsl_error_handler = "inner_error_handler"
                 THEN invoked \o inner_error_handler(r.reason, r.file, r.line, r.gsl_errno)
                 ELSE invoked

(***************************************************************************)
(* set_handler(f)                                                          *)
(***************************************************************************)
\* set_handler(Some(f)) storing f without installing the adapter
set_handler_keep_hook(f) ==
    /\ ~aborted
    /\ LET out == CALLBACK
       IN /\ IF f # None
             THEN /\ CALLBACK' = f
                  /\ gsl_error_handler' = gsl_error_handler
             ELSE /\ CALLBACK' = None
                  /\ gsl_set_error_handler(None)
          /\ lastCall' = [op |-> "set_handler", arg |-> f, ret |-> out, pre |-> Pre]
    /\ prevCall' = lastCall
    /\ report' = <<>> /\ invoked' = <<>> /\ ct' = NoCT
    /\ UNCHANGED <<aborted, codecVars, ownVars, restVars>>

\* set_handler reading the slot without emptying it (no take)
set_handler_no_take(f) ==
    /\ ~aborted
    /\ LET out == CALLBACK
       IN /\ IF f # None
             THEN /\ CALLBACK' = f
                  /\ gsl_set_error_handler("inner_error_handler")
             ELSE /\ CALLBACK' = CALLBACK
                  /\ gsl_set_error_handler(None)
          /\ lastCall' = [op |-> "set_handler", arg |-> f, ret |-> out, pre |-> Pre]
    /\ prevCall' = lastCall
    /\ report' = <<>> /\ invoked' = <<>> /\ ct' = NoCT
    /\ UNCHANGED <<aborted, codecVars, ownVars, restVars>>

set_handler(f) ==
    /\ ~aborted
    /\ LET out == CALLBACK
       IN /\ IF f # None
             THEN /\ CALLBACK' = f
                  /\ gsl_set_error_handler("inner_error_handler")
             ELSE /\ CALLBACK' = None
                  /\ gsl_set_error_handler(None)
          /\ lastCall' = [op |-> "set_handler", arg |-> f, ret |-> out, pre |-> Pre]
    /\ prevCall' = lastCall
    /\ report' = <<>> /\ invoked' = <<>> /\ ct' = NoCT
    /\ UNCHANGED <<aborted, codecVars, ownVars, restVars>>

(***************************************************************************)
(* set_handler_off()                                                       *)
(***************************************************************************)
\* set_handler_off emptying the slot without touching the native hook
set_handler_off_take_only ==
    /\ ~aborted
    /\ gsl_error_handler' = gsl_error_handler
    /\ CALLBACK' = None
    /\ lastCall' = [op |-> "set_handler_off", arg |-> None, ret |-> CALLBACK, pre |-> Pre]
    /\ prevCall' = lastCall
    /\ report' = <<>> /\ invoked' = <<>> /\ ct' = NoCT
    /\ UNCHANGED <<aborted, codecVars, ownVars, restVars>>

\* set_handler_off returning the slot without emptying it
set_handler_off_keep ==
    /\ ~aborted
    /\ gsl_set_error_handler_off
    /\ CALLBACK' = CALLBACK
    /\ lastCall' = [op |-> "set_handler_off", arg |-> None, ret |-> CALLBACK, pre |-> Pre]
    /\ prevCall' = lastCall
    /\ report' = <<>> /\ invoked' = <<>> /\ ct' = NoCT
    /\ UNCHANGED <<aborted, codecVars, ownVars, restVars>>

\* set_handler_off passing NULL to gsl_set_error_handler
set_handler_off_null ==
    /\ ~aborted
    /\ gsl_set_error_handler(None)
    /\ CALLBACK' = None
    /\ lastCall' = [op |-> "set_handler_off", arg |-> None, ret |-> CALLBACK, pre |-> Pre]
    /\ prevCall' = lastCall
    /\ report' = <<>> /\ invoked' = <<>> /\ ct' = NoCT
    /\ UNCHANGED <<aborted, codecVars, ownVars, restVars>>

set_handler_off ==
    /\ ~aborted
    /\ gsl_set_error_handler_off
    /\ CALLBACK' = None
    /\ lastCall' = [op |-> "set_handler_off", arg |-> None, ret |-> CALLBACK, pre |-> Pre]
    /\ prevCall' = lastCall
    /\ report' = <<>> /\ invoked' = <<>> /\ ct' = NoCT
    /\ UNCHANGED <<aborted, codecVars, ownVars, restVars>>

(***************************************************************************)
(* A native error report arriving (the library calls gsl_error).           *)
(***************************************************************************)
Deliver(r) ==
    /\ ~aborted
    /\ Len(report) < MaxReports
    /\ gsl_error(r)
    /\ UNCHANGED <<CALLBACK, gsl_error_handler, lastCall, prevCall, ct, codecVars, ownVars, restVars>>

(***************************************************************************)
(* bessel::K0_e(x), a call-through: the native routine, then Error::handle *)
(* on its status.                                                          *)
(***************************************************************************)
\* the status gsl_sf_bessel_K0_e returns: a domain error for x <= 0, an
\* underflow for large x (1e3), success otherwise
gsl_sf_bessel_K0_e(x) ==
    IF x <= 0 THEN sys.GSL_EDOM
    ELSE IF x >= 1000 THEN sys.GSL_EUNDRFLW
    ELSE sys.GSL_SUCCESS

K0_e(x) ==
    /\ ~aborted
    /\ Len(report) < MaxReports
    /\ LET status == gsl_sf_bessel_K0_e(x)
       IN /\ IF status = sys.GSL_SUCCESS
             THEN UNCHANGED <<report, invoked, aborted>>
             ELSE gsl_error(IF status = sys.GSL_EUNDRFLW THEN R_underflow ELSE R_domain)
          /\ ct' = IF status # sys.GSL_SUCCESS /\ gsl_error_handler = "NULL"
                   THEN [x |-> x, returned |-> FALSE, ret |-> Ok("none")]
                   ELSE [x |-> x, returned |-> TRUE, ret |-> handle(status, "result")]
    /\ UNCHANGED <<CALLBACK, gsl_error_handler, lastCall, prevCall, codecVars, ownVars, restVars>>

(***************************************************************************)
(* The codec steps: Error::handle and Error::to_c applied to the input.    *)
(***************************************************************************)
CodeInputs == (-MaxCode .. MaxCode) \cup {I32_MIN, I32_MAX}
ErrorInputs == NamedErrors \cup { Unknown(n) : n \in CodeInputs }
ResultInputs == { Ok(Unit) } \cup { Err(e) : e \in ErrorInputs }

HandleStep ==
    /\ \/ /\ dir = "c2e" /\ pcCodec = "start"
          /\ res' = handle(code, Unit)
          /\ pcCodec' = "mid"
          /\ UNCHANGED res2
       \/ /\ dir = "e2c" /\ pcCodec = "mid"
          /\ res2' = handle(code, Unit)
          /\ pcCodec' = "done"
          /\ UNCHANGED res
    /\ UNCHANGED <<dir, code, code2, handlerVars, ownVars, restVars>>

ToCStep ==
    /\ \/ /\ dir = "c2e" /\ pcCodec = "mid"
          /\ code2' = to_c(res)
          /\ pcCodec' = "done"
          /\ UNCHANGED code
       \/ /\ dir = "e2c" /\ pcCodec = "start"
          /\ code' = to_c(res)
          /\ pcCodec' = "mid"
          /\ UNCHANGED code2
    /\ UNCHANGED <<dir, res, res2, handlerVars, ownVars, restVars>>

(***************************************************************************)
(* Resource handle wrappers: the owned wrappers that ffi_wrapper! declares *)
(* (the filter workspace) and the vectors, their shared and exclusive      *)
(* views, and the call-throughs that take the views.                       *)
(***************************************************************************)
\* at most MaxShared shared views of one wrapper are live together
MaxShared == 2

Vectors == {"v1", "v2"}
Workspaces == {"w"}
Wrappers == Vectors \cup Workspaces

Zeros == <<0, 0, 0, 0, 0>>
OneToFive == <<1, 2, 3, 4, 5>>
Values == {Zeros, OneToFive}

Idle == [op |-> "idle", x |-> "-", y |-> "-", ws |-> "-"]

\* the status codes a vector routine returns
VectorStatus == {sys.GSL_SUCCESS, sys.GSL_EBADLEN, sys.GSL_EDOM}

\* FFI::unwrap_shared(&self): one more shared view of h; the borrow is legal
\* only while no exclusive view of h is live
unwrap_shared(h) ==
    /\ owner[h] = "live"
    /\ excl[h] = 0
    /\ shared[h] < MaxShared

\* FFI::unwrap_unique(&mut self): the only view of h; the borrow is legal only
\* while no other view of h is live
unwrap_unique(h) ==
    /\ owner[h] = "live"
    /\ excl[h] = 0
    /\ shared[h] = 0

\* Option<Self>, the return type of the constructors
OptNone == [some |-> FALSE]
Some(x) == [some |-> TRUE, val |-> x]
NotMade == [called |-> FALSE]

\* the constructor wrapping whatever handle the allocation returned
new_wrap_null(h, isnull) ==
    /\ call = Idle
    /\ owner[h] = "unallocated"
    /\ ptr' = [ptr EXCEPT ![h] = IF isnull THEN "null" ELSE "valid"]
    /\ owner' = [owner EXCEPT ![h] = "live"]
    /\ made' = [made EXCEPT ![h] = Some(h)]
    /\ UNCHANGED <<shared, excl, freed, data, readback, call, cres>>
    /\ UNCHANGED <<codecVars, handlerVars, restVars>>

\* FilterGaussianWorkspace::new / Mathieu::new: the native allocation, then
\* None if the handle is null, Some(Self::wrap(s)) otherwise
new(h, isnull) ==
    /\ call = Idle
    /\ owner[h] = "unallocated"
    /\ ptr' = [ptr EXCEPT ![h] = IF isnull THEN "null" ELSE "valid"]
    /\ owner' = [owner EXCEPT ![h] = IF isnull THEN "none" ELSE "live"]
    /\ made' = [made EXCEPT ![h] = IF isnull THEN OptNone ELSE Some(h)]
    /\ UNCHANGED <<shared, excl, freed, data, readback, call, cres>>
    /\ UNCHANGED <<codecVars, handlerVars, restVars>>

\* a shared view taken and held by the caller
borrow_shared(h) ==
    /\ call = Idle
    /\ unwrap_shared(h)
    /\ shared' = [shared EXCEPT ![h] = @ + 1]
    /\ UNCHANGED <<owner, excl, freed, data, readback, call, cres>>
    /\ UNCHANGED <<ptr, made, codecVars, handlerVars, restVars>>

\* an exclusive view taken and held by the caller
borrow_exclusive(h) ==
    /\ call = Idle
    /\ unwrap_unique(h)
    /\ excl' = [excl EXCEPT ![h] = 1]
    /\ readback' = [readback EXCEPT ![h] = <<>>]
    /\ UNCHANGED <<owner, shared, freed, data, call, cres>>
    /\ UNCHANGED <<ptr, made, codecVars, handlerVars, restVars>>

\* a view dropped: no release of the resource
drop_shared(h) ==
    /\ call = Idle
    /\ shared[h] > 0
    /\ shared' = [shared EXCEPT ![h] = @ - 1]
    /\ UNCHANGED <<owner, excl, freed, data, readback, call, cres>>
    /\ UNCHANGED <<ptr, made, codecVars, handlerVars, restVars>>

drop_exclusive(h) ==
    /\ call = Idle
    /\ excl[h] > 0
    /\ excl' = [excl EXCEPT ![h] = @ - 1]
    /\ UNCHANGED <<owner, shared, freed, data, readback, call, cres>>
    /\ UNCHANGED <<ptr, made, codecVars, handlerVars, restVars>>

\* the elements written through the exclusive view
set_all(h, vals) ==
    /\ call = Idle
    /\ h \in Vectors
    /\ excl[h] = 1
    /\ data' = [data EXCEPT ![h] = vals]
    /\ UNCHANGED <<owner, shared, excl, freed, readback, call, cres>>
    /\ UNCHANGED <<ptr, made, codecVars, handlerVars, restVars>>

\* the elements read through one more of the live shared views
get_all(h) ==
    /\ call = Idle
    /\ h \in Vectors
    /\ shared[h] > Len(readback[h])
    /\ readback' = [readback EXCEPT ![h] = Append(@, data[h])]
    /\ UNCHANGED <<owner, shared, excl, freed, data, call, cres>>
    /\ UNCHANGED <<ptr, made, codecVars, handlerVars, restVars>>

\* ffi_wrapper! declared without a free routine: the drop releases nothing
drop_owner_no_free(h) ==
    /\ call = Idle
    /\ owner[h] = "live"
    /\ shared[h] = 0 /\ excl[h] = 0
    /\ owner' = [owner EXCEPT ![h] = "dropped"]
    /\ UNCHANGED <<freed, shared, excl, data, readback, call, cres>>
    /\ UNCHANGED <<ptr, made, codecVars, handlerVars, restVars>>

\* the owned wrapper dropped, once every view into it has ended: the free
\* routine named in ffi_wrapper! is called
drop_owner(h) ==
    /\ call = Idle
    /\ owner[h] = "live"
    /\ shared[h] = 0 /\ excl[h] = 0
    /\ owner' = [owner EXCEPT ![h] = "dropped"]
    /\ freed' = [freed EXCEPT ![h] = @ + 1]
    /\ UNCHANGED <<shared, excl, data, readback, call, cres>>
    /\ UNCHANGED <<ptr, made, codecVars, handlerVars, restVars>>

\* gaussian taking x and y without the two borrows excluding each other
gaussian_in_place(ws, x, y) ==
    /\ call = Idle
    /\ unwrap_shared(x)
    /\ owner[y] = "live" /\ excl[y] = 0
    /\ unwrap_unique(ws)
    /\ shared' = [shared EXCEPT ![x] = @ + 1]
    /\ excl' = [excl EXCEPT ![y] = 1, ![ws] = 1]
    /\ call' = [op |-> "gaussian", x |-> x, y |-> y, ws |-> ws]
    /\ UNCHANGED <<owner, freed, data, readback, cres>>
    /\ UNCHANGED <<ptr, made, codecVars, handlerVars, restVars>>

\* FilterGaussianWorkspace::gaussian(&mut self, .., x: &VectorF64,
\* y: &mut VectorF64): the views are taken and the native routine entered
gaussian(ws, x, y) ==
    /\ call = Idle
    /\ x # y
    /\ unwrap_shared(x)
    /\ unwrap_unique(y)
    /\ unwrap_unique(ws)
    /\ shared' = [shared EXCEPT ![x] = @ + 1]
    /\ excl' = [excl EXCEPT ![y] = 1, ![ws] = 1]
    /\ call' = [op |-> "gaussian", x |-> x, y |-> y, ws |-> ws]
    /\ UNCHANGED <<owner, freed, data, readback, cres>>
    /\ UNCHANGED <<ptr, made, codecVars, handlerVars, restVars>>

\* the native filter returns: y written, the views end, the status decoded
gaussian_return(status, vals) ==
    /\ call.op = "gaussian"
    /\ data' = [data EXCEPT ![call.y] = vals]
    /\ readback' = [readback EXCEPT ![call.y] = <<>>]
    /\ shared' = [shared EXCEPT ![call.x] = @ - 1]
    /\ excl' = [excl EXCEPT ![call.y] = 0, ![call.ws] = 0]
    /\ cres' = handle(status, Unit)
    /\ call' = Idle
    /\ UNCHANGED <<owner, freed>>
    /\ UNCHANGED <<ptr, made, codecVars, handlerVars, restVars>>

\* blas::s::axpy(alpha, x: &VectorF32, y: &mut VectorF32)
axpy(x, y) ==
    /\ call = Idle
    /\ x # y
    /\ unwrap_shared(x)
    /\ unwrap_unique(y)
    /\ shared' = [shared EXCEPT ![x] = @ + 1]
    /\ excl' = [excl EXCEPT ![y] = 1]
    /\ call' = [op |-> "axpy", x |-> x, y |-> y, ws |-> "-"]
    /\ UNCHANGED <<owner, freed, data, readback, cres>>
    /\ UNCHANGED <<ptr, made, codecVars, handlerVars, restVars>>

axpy_return(status, vals) ==
    /\ call.op = "axpy"
    /\ data' = [data EXCEPT ![call.y] = vals]
    /\ readback' = [readback EXCEPT ![call.y] = <<>>]
    /\ shared' = [shared EXCEPT ![call.x] = @ - 1]
    /\ excl' = [excl EXCEPT ![call.y] = 0]
    /\ cres' = handle(status, Unit)
    /\ call' = Idle
    /\ UNCHANGED <<owner, freed>>
    /\ UNCHANGED <<ptr, made, codecVars, handlerVars, restVars>>

\* blas::s::dot(x: &VectorF32, y: &VectorF32): two shared views, of one
\* vector when x and y are the same
dot(x, y) ==
    /\ call = Idle
    /\ unwrap_shared(x)
    /\ unwrap_shared(y)
    /\ x = y => shared[x] + 2 <= MaxShared
    /\ shared' = IF x = y THEN [shared EXCEPT ![x] = @ + 2]
                 ELSE [shared EXCEPT ![x] = @ + 1, ![y] = @ + 1]
    /\ call' = [op |-> "dot", x |-> x, y |-> y, ws |-> "-"]
    /\ UNCHANGED <<owner, excl, freed, data, readback, cres>>
    /\ UNCHANGED <<ptr, made, codecVars, handlerVars, restVars>>

dot_return(status) ==
    /\ call.op = "dot"
    /\ shared' = IF call.x = call.y THEN [shared EXCEPT ![call.x] = @ - 2]
                 ELSE [shared EXCEPT ![call.x] = @ - 1, ![call.y] = @ - 1]
    /\ cres' = handle(status, "result")
    /\ call' = Idle
    /\ UNCHANGED <<owner, excl, freed, data, readback>>
    /\ UNCHANGED <<ptr, made, codecVars, handlerVars, restVars>>

Threads == {"t1", "t2"}

(***************************************************************************)
(* Call-throughs of the BLAS modules: blas::{s,d,c,z} take vector wrappers *)
(* and return Result, cblas::{s,d,c,z} take slices and return the value.   *)
(***************************************************************************)
\* the views have lengths 0 .. MaxLen
MaxLen == 3
Lens == 0 .. MaxLen

\* blas: the two-vector Level-1 routines that hand their views straight to
\* the native routine
BlasLevel1 ==
    { "blas::s::sdot", "blas::s::dot", "blas::s::ddot", "blas::s::swap",
      "blas::s::copy", "blas::s::axpy", "blas::s::rot",
      "blas::d::dot", "blas::d::swap", "blas::d::copy", "blas::d::axpy",
      "blas::d::rot",
      "blas::c::dotu", "blas::c::dot", "blas::c::copy",
      "blas::z::dotu", "blas::z::dot", "blas::z::swap", "blas::z::axpy" }
\* blas: the two routines that compare the lengths themselves
BlasRotm == { "blas::s::rotm", "blas::d::drotm" }
\* cblas: the two-vector Level-1 routines
CblasLevel1 ==
    { "cblas::s::sdot", "cblas::s::ddot", "cblas::s::dot", "cblas::s::swap",
      "cblas::s::copy", "cblas::s::axpy", "cblas::s::rot", "cblas::s::rotm",
      "cblas::d::dot", "cblas::d::swap", "cblas::d::copy", "cblas::d::axpy",
      "cblas::d::rot", "cblas::d::rotm",
      "cblas::c::dotu", "cblas::c::dot", "cblas::c::swap", "cblas::c::copy",
      "cblas::c::axpy",
      "cblas::z::dotu", "cblas::z::dot", "cblas::z::swap", "cblas::z::copy",
      "cblas::z::axpy" }

NoStatus == <<>>
NoOut == [returned |-> FALSE]
Panic == [panic |-> TRUE]
Plain(x) == [plain |-> x]
NoArg == [none |-> TRUE]
TwoLens(lx, ly) == [lenx |-> lx, leny |-> ly]

S_invalid_length == <<105, 110, 118, 97, 108, 105, 100, 32, 108, 101, 110, 103, 116, 104>>
S_blas_c == <<98, 108, 97, 115, 46, 99>>
S_native == <<101, 114, 114, 111, 114>>

\* gsl_blas_saxpy and the other native two-vector routines compare the sizes
\* before they touch an element: GSL_ERROR("invalid length", GSL_EBADLEN)
gsl_blas_level1(lx, ly) ==
    IF lx = ly THEN sys.GSL_SUCCESS ELSE sys.GSL_EBADLEN

\* the native routine ran once and returned st, having called gsl_error
\* where it reports its failure that way; then Error::handle(ret, payload)
NativeThenHandle(r, a, st, reported, rep, payload) ==
    /\ ~aborted
    /\ Len(report) < MaxReports
    /\ rt' = r /\ arg' = a
    /\ ncalls' = 1
    /\ nstatus' = <<st>>
    /\ IF reported THEN gsl_error(rep) ELSE UNCHANGED <<report, invoked, aborted>>
    /\ result' = IF reported /\ gsl_error_handler = "NULL"
              THEN NoOut
              ELSE handle(st, payload)
    /\ UNCHANGED <<oob, CALLBACK, gsl_error_handler, lastCall, prevCall, ct>>
    /\ UNCHANGED <<codecVars, ownVars, enumVars, thrVars, arrVars, givVars>>

\* the panic of a length check: the call unwinds, no native routine ran
Panics(r, a) ==
    /\ ~aborted
    /\ rt' = r /\ arg' = a
    /\ ncalls' = 0
    /\ nstatus' = NoStatus
    /\ result' = Panic
    /\ UNCHANGED <<oob, handlerVars, codecVars, ownVars, enumVars, thrVars, arrVars, givVars>>

\* blas::s::axpy, blas::d::dot, blas::s::swap, ..: no comparison of the
\* lengths in the wrapper
blas_level1(r, lx, ly) ==
    LET st == gsl_blas_level1(lx, ly)
    IN NativeThenHandle(r, TwoLens(lx, ly), st, st # sys.GSL_SUCCESS,
                        Report(S_invalid_length, S_blas_c, 1, st),
                        IF r \in {"blas::s::swap", "blas::s::copy", "blas::s::axpy",
                                  "blas::s::rot", "blas::d::swap", "blas::d::copy",
                                  "blas::d::axpy", "blas::d::rot", "blas::c::copy",
                                  "blas::z::swap", "blas::z::axpy"}
                        THEN Unit ELSE "result")

\* rotm handing the views to the native routine without comparing the lengths
blas_rotm_unchecked(r, lx, ly) ==
    LET st == gsl_blas_level1(lx, ly)
    IN NativeThenHandle(r, TwoLens(lx, ly), st, st # sys.GSL_SUCCESS,
                        Report(S_invalid_length, S_blas_c, 1, st), Unit)

\* blas::s::rotm, blas::d::drotm: panic!("... len(x) = {lenx} != len(y) =
\* {leny}") before the native routine
blas_rotm(r, lx, ly) ==
    IF lx # ly
    THEN Panics(r, TwoLens(lx, ly))
    ELSE LET st == gsl_blas_level1(lx, ly)
         IN NativeThenHandle(r, TwoLens(lx, ly), st, st # sys.GSL_SUCCESS,
                             Report(S_invalid_length, S_blas_c, 1, st), Unit)

\* vector::check_equal_len(x, y): Err when the lengths differ
check_equal_len(lx, ly) ==
    IF lx # ly THEN Err(Named("Invalid")) ELSE Ok(Unit)

\* the native routine of a cblas wrapper ran once; it returns its value, or
\* nothing, and no status
NativeValue(r, a) ==
    /\ ~aborted
    /\ rt' = r /\ arg' = a
    /\ ncalls' = 1
    /\ nstatus' = NoStatus
    /\ result' = Plain("value")
    /\ UNCHANGED <<oob, handlerVars, codecVars, ownVars, enumVars, thrVars, arrVars, givVars>>

\* a cblas Level-1 wrapper without its check_equal_len(..).expect(..)
cblas_level1_unchecked(r, lx, ly) ==
    NativeValue(r, TwoLens(lx, ly))

\* cblas::s::axpy, cblas::d::dot, ..: check_equal_len(x, y).expect(".."),
\* then the native routine with len(x)
cblas_level1(r, lx, ly) ==
    IF ~check_equal_len(lx, ly).ok
    THEN Panics(r, TwoLens(lx, ly))
    ELSE NativeValue(r, TwoLens(lx, ly))

\* the statuses a native routine returns: success, GSL_CONTINUE, three named
\* failures and a code that has no name
Statuses ==
    { sys.GSL_SUCCESS, sys.GSL_CONTINUE, sys.GSL_EDOM, sys.GSL_ENOMEM,
      sys.GSL_EBADLEN, 77 }

\* multifit::covar discarding the status
covar_discard(st, reported) ==
    /\ ~aborted
    /\ Len(report) < MaxReports
    /\ rt' = "multifit::covar" /\ arg' = [st |-> st]
    /\ ncalls' = 1
    /\ nstatus' = <<st>>
    /\ IF reported /\ st # sys.GSL_SUCCESS
       THEN gsl_error(Report(S_native, S_file, 1, st))
       ELSE UNCHANGED <<report, invoked, aborted>>
    /\ result' = IF reported /\ st # sys.GSL_SUCCESS /\ gsl_error_handler = "NULL"
                 THEN NoOut
                 ELSE Ok(Unit)
    /\ UNCHANGED <<oob, CALLBACK, gsl_error_handler, lastCall, prevCall, ct>>
    /\ UNCHANGED <<codecVars, ownVars, enumVars, thrVars, arrVars, givVars>>

\* multifit::covar(J, epsrel, covar): the native routine, Error::handle(ret, ())
covar(st, reported) ==
    NativeThenHandle("multifit::covar", [st |-> st], st,
                     reported /\ st # sys.GSL_SUCCESS,
                     Report(S_native, S_file, 1, st), Unit)

\* enums::Value::from(ret) and Value::is_success() of the older interface
Value_from(v) ==
    IF v = sys.GSL_SUCCESS THEN Named("Success") ELSE handle(v, Unit).err
is_success(e) == e = Named("Success")

\* power::pow_int_e(x, n): the native routine, then Ok(result) if the decoded
\* status is the success value, Err(ret) otherwise
pow_int_e(st, reported) ==
    /\ ~aborted
    /\ Len(report) < MaxReports
    /\ rt' = "pow_int_e" /\ arg' = [st |-> st]
    /\ ncalls' = 1
    /\ nstatus' = <<st>>
    /\ IF reported /\ st # sys.GSL_SUCCESS
       THEN gsl_error(Report(S_native, S_file, 1, st))
       ELSE UNCHANGED <<report, invoked, aborted>>
    /\ result' = IF reported /\ st # sys.GSL_SUCCESS /\ gsl_error_handler = "NULL"
                 THEN NoOut
                 ELSE LET ret == Value_from(st)
                      IN IF is_success(ret) THEN Ok("result") ELSE Err(ret)
    /\ UNCHANGED <<oob, CALLBACK, gsl_error_handler, lastCall, prevCall, ct>>
    /\ UNCHANGED <<codecVars, ownVars, enumVars, thrVars, arrVars, givVars>>

\* gsl_poly_complex_solve_cubic returns the number of roots found, 3
gsl_poly_complex_solve_cubic == 3

\* polynomials::Cubic::roots(&self): the native routine, `let _n = ..`, and
\* the three roots returned whatever the native routine returned
Cubic_roots ==
    /\ ~aborted
    /\ rt' = "Cubic::roots" /\ arg' = NoArg
    /\ ncalls' = 1
    /\ nstatus' = <<gsl_poly_complex_solve_cubic>>
    /\ result' = Plain("(z0, z1, z2)")
    /\ UNCHANGED <<oob, handlerVars, codecVars, ownVars, enumVars, thrVars, arrVars, givVars>>

(***************************************************************************)
(* cblas::s::gemv: a slice-taking Level-2 wrapper.  A slice is modelled by *)
(* its length.                                                             *)
(***************************************************************************)
\* M, N are 0 .. MaxDim, lda is 1 .. MaxDim, A holds up to MaxDim * MaxDim
\* elements, X and Y up to MaxDim
MaxDim == 2
Dims == 0 .. MaxDim
Strides == {1, 2}

Max(a, b) == IF a >= b THEN a ELSE b

\* the parameter check of the native routine (it reports through
\* cblas_xerbla and does not return): negative M or N, lda smaller than a
\* row (a column in column-major order), a zero increment
cblas_sgemv_rejects(a) ==
    \/ a.M < 0 \/ a.N < 0
    \/ a.lda < Max(1, IF a.order = "RowMajor" THEN a.N ELSE a.M)
    \/ a.incx = 0 \/ a.incy = 0

\* the native routine addresses A[(rows-1)*lda + cols-1], X[(lenX-1)*incx]
\* and Y[(lenY-1)*incy] (positive increments); nothing when M or N is 0
cblas_sgemv_outside(a) ==
    LET lenX == IF a.transA = "NoTranspose" THEN a.N ELSE a.M
        lenY == IF a.transA = "NoTranspose" THEN a.M ELSE a.N
        rows == IF a.order = "RowMajor" THEN a.M ELSE a.N
        cols == IF a.order = "RowMajor" THEN a.N ELSE a.M
    IN /\ a.M > 0 /\ a.N > 0
       /\ \/ (rows - 1) * a.lda + (cols - 1) >= a.A
          \/ (lenX - 1) * a.incx >= a.X
          \/ (lenY - 1) * a.incy >= a.Y

\* cblas::s::gemv(order, transA, M, N, alpha, A, lda, X, incx, beta, Y, incy):
\* the arguments go to sys::cblas_sgemv as they are, the slices as pointers.
\* Reading or writing outside a slice is undefined behaviour: the call may
\* return as if nothing happened, or the process may die.
gemv(order, transA, M, N, A, lda, X, incx, Y, incy) ==
    LET a == [order |-> order, transA |-> transA, M |-> M, N |-> N, A |-> A,
              lda |-> lda, X |-> X, incx |-> incx, Y |-> Y, incy |-> incy]
    IN /\ ~aborted
       /\ rt' = "cblas::s::gemv" /\ arg' = a
       /\ ncalls' = 1
       /\ nstatus' = NoStatus
       /\ oob' = (~cblas_sgemv_rejects(a) /\ cblas_sgemv_outside(a))
       /\ result' \in IF cblas_sgemv_rejects(a) THEN {NoOut}
                      ELSE IF cblas_sgemv_outside(a) THEN {Plain(Unit), NoOut}
                      ELSE {Plain(Unit)}
       /\ UNCHANGED <<handlerVars, codecVars, ownVars, enumVars, thrVars, arrVars, givVars>>

(***************************************************************************)
(* Domain enum transcoders: the Into and From implementations of blas.rs,  *)
(* eigen.rs and enums.rs.                                                  *)
(***************************************************************************)
\* the native constants, as the build binds them from gsl_cblas.h,
\* gsl_eigen.h, gsl_monte_vegas.h, gsl_wavelet.h, gsl_sf_legendre.h and
\* gsl_filter.h
sys_enums ==
    [
      CBLAS_ORDER_CblasRowMajor |-> 101,
      CBLAS_ORDER_CblasColMajor |-> 102,
      CBLAS_TRANSPOSE_CblasNoTrans |-> 111,
      CBLAS_TRANSPOSE_CblasTrans |-> 112,
      CBLAS_TRANSPOSE_CblasConjTrans |-> 113,
      CBLAS_UPLO_CblasUpper |-> 121,
      CBLAS_UPLO_CblasLower |-> 122,
      CBLAS_DIAG_CblasNonUnit |-> 131,
      CBLAS_DIAG_CblasUnit |-> 132,
      CBLAS_SIDE_CblasLeft |-> 141,
      CBLAS_SIDE_CblasRight |-> 142,
      gsl_eigen_sort_t_GSL_EIGEN_SORT_VAL_ASC |-> 0,
      gsl_eigen_sort_t_GSL_EIGEN_SORT_VAL_DESC |-> 1,
      gsl_eigen_sort_t_GSL_EIGEN_SORT_ABS_ASC |-> 2,
      gsl_eigen_sort_t_GSL_EIGEN_SORT_ABS_DESC |-> 3,
      GSL_VEGAS_MODE_IMPORTANCE |-> 1,
      GSL_VEGAS_MODE_IMPORTANCE_ONLY |-> 0,
      GSL_VEGAS_MODE_STRATIFIED |-> -1,
      gsl_wavelet_direction_gsl_wavelet_forward |-> 1,
      gsl_wavelet_direction_gsl_wavelet_backward |-> -1,
      gsl_sf_legendre_t_GSL_SF_LEGENDRE_SCHMIDT |-> 0,
      gsl_sf_legendre_t_GSL_SF_LEGENDRE_SPHARM |-> 1,
      gsl_sf_legendre_t_GSL_SF_LEGENDRE_FULL |-> 2,
      gsl_sf_legendre_t_GSL_SF_LEGENDRE_NONE |-> 3,
      gsl_filter_end_t_GSL_FILTER_END_PADZERO |-> 0,
      gsl_filter_end_t_GSL_FILTER_END_PADVALUE |-> 1,
      gsl_filter_end_t_GSL_FILTER_END_TRUNCATE |-> 2,
      gsl_filter_scale_t_GSL_FILTER_SCALE_MAD |-> 0,
      gsl_filter_scale_t_GSL_FILTER_SCALE_IQR |-> 1,
      gsl_filter_scale_t_GSL_FILTER_SCALE_SN |-> 2,
      gsl_filter_scale_t_GSL_FILTER_SCALE_QN |-> 3 ]

Enums ==
    { "Transpose", "Uplo", "Order", "Side",
      "Diag", "Sort", "VegasMode", "WaveletDirection",
      "SfLegendreNorm", "FilterEnd", "FilterScale" }

\* the variants of each enum
Variants(e) ==
    CASE e = "Transpose" -> {"NoTranspose", "Transpose", "ConjugateTranspose"}
      [] e = "Uplo" -> {"Upper", "Lower"}
      [] e = "Order" -> {"RowMajor", "ColumnMajor"}
      [] e = "Side" -> {"Left", "Right"}
      [] e = "Diag" -> {"NonUnit", "Unit"}
      [] e = "Sort" -> {"Asc", "Desc", "AbsAsc", "AbsDesc"}
      [] e = "VegasMode" -> {"Importance", "ImportanceOnly", "Stratified"}
      [] e = "WaveletDirection" -> {"Forward", "Backward"}
      [] e = "SfLegendreNorm" -> {"Schmidt", "SphericalHarmonic", "Full", "None"}
      [] e = "FilterEnd" -> {"PadZero", "PadValue", "Truncate"}
      [] e = "FilterScale" -> {"MedianAbsoluteDeviation", "InterQuartileRange", "SN", "QN"}

\* the conversion panicked: no variant is returned
PanicV == "panic!"

\* impl Into<native> for each enum: a match with one arm for every variant
into(e, v) ==
    CASE e = "Transpose" ->
          (CASE v = "NoTranspose" -> sys_enums.CBLAS_TRANSPOSE_CblasNoTrans
             [] v = "Transpose" -> sys_enums.CBLAS_TRANSPOSE_CblasTrans
             [] v = "ConjugateTranspose" -> sys_enums.CBLAS_TRANSPOSE_CblasConjTrans)
      [] e = "Uplo" ->
          (CASE v = "Upper" -> sys_enums.CBLAS_UPLO_CblasUpper
             [] v = "Lower" -> sys_enums.CBLAS_UPLO_CblasLower)
      [] e = "Order" ->
          (CASE v = "RowMajor" -> sys_enums.CBLAS_ORDER_CblasRowMajor
             [] v = "ColumnMajor" -> sys_enums.CBLAS_ORDER_CblasColMajor)
      [] e = "Side" ->
          (CASE v = "Left" -> sys_enums.CBLAS_SIDE_CblasLeft
             [] v = "Right" -> sys_enums.CBLAS_SIDE_CblasRight)
      [] e = "Diag" ->
          (CASE v = "NonUnit" -> sys_enums.CBLAS_DIAG_CblasNonUnit
             [] v = "Unit" -> sys_enums.CBLAS_DIAG_CblasUnit)
      [] e = "Sort" ->
          (CASE v = "Asc" -> sys_enums.gsl_eigen_sort_t_GSL_EIGEN_SORT_VAL_ASC
             [] v = "Desc" -> sys_enums.gsl_eigen_sort_t_GSL_EIGEN_SORT_VAL_DESC
             [] v = "AbsAsc" -> sys_enums.gsl_eigen_sort_t_GSL_EIGEN_SORT_ABS_ASC
             [] v = "AbsDesc" -> sys_enums.gsl_eigen_sort_t_GSL_EIGEN_SORT_ABS_DESC)
      [] e = "VegasMode" ->
          (CASE v = "Importance" -> sys_enums.GSL_VEGAS_MODE_IMPORTANCE
             [] v = "ImportanceOnly" -> sys_enums.GSL_VEGAS_MODE_IMPORTANCE_ONLY
             [] v = "Stratified" -> sys_enums.GSL_VEGAS_MODE_STRATIFIED)
      [] e = "WaveletDirection" ->
          (CASE v = "Forward" -> sys_enums.gsl_wavelet_direction_gsl_wavelet_forward
             [] v = "Backward" -> sys_enums.gsl_wavelet_direction_gsl_wavelet_backward)
      [] e = "SfLegendreNorm" ->
          (CASE v = "Schmidt" -> sys_enums.gsl_sf_legendre_t_GSL_SF_LEGENDRE_SCHMIDT
             [] v = "SphericalHarmonic" -> sys_enums.gsl_sf_legendre_t_GSL_SF_LEGENDRE_SPHARM
             [] v = "Full" -> sys_enums.gsl_sf_legendre_t_GSL_SF_LEGENDRE_FULL
             [] v = "None" -> sys_enums.gsl_sf_legendre_t_GSL_SF_LEGENDRE_NONE)
      [] e = "FilterEnd" ->
          (CASE v = "PadZero" -> sys_enums.gsl_filter_end_t_GSL_FILTER_END_PADZERO
             [] v = "PadValue" -> sys_enums.gsl_filter_end_t_GSL_FILTER_END_PADVALUE
             [] v = "Truncate" -> sys_enums.gsl_filter_end_t_GSL_FILTER_END_TRUNCATE)
      [] e = "FilterScale" ->
          (CASE v = "MedianAbsoluteDeviation" -> sys_enums.gsl_filter_scale_t_GSL_FILTER_SCALE_MAD
             [] v = "InterQuartileRange" -> sys_enums.gsl_filter_scale_t_GSL_FILTER_SCALE_IQR
             [] v = "SN" -> sys_enums.gsl_filter_scale_t_GSL_FILTER_SCALE_SN
             [] v = "QN" -> sys_enums.gsl_filter_scale_t_GSL_FILTER_SCALE_QN)

\* From with the two arms of Uplo exchanged
from_swapped(e, v) ==
    CASE e = "Transpose" ->
          (CASE v = sys_enums.CBLAS_TRANSPOSE_CblasNoTrans -> "NoTranspose"
             [] v = sys_enums.CBLAS_TRANSPOSE_CblasTrans -> "Transpose"
             [] v = sys_enums.CBLAS_TRANSPOSE_CblasConjTrans -> "ConjugateTranspose"
             [] OTHER -> PanicV)
      [] e = "Uplo" ->
          (CASE v = sys_enums.CBLAS_UPLO_CblasUpper -> "Lower"
             [] v = sys_enums.CBLAS_UPLO_CblasLower -> "Upper"
             [] OTHER -> PanicV)
      [] e = "Order" ->
          (CASE v = sys_enums.CBLAS_ORDER_CblasRowMajor -> "RowMajor"
             [] v = sys_enums.CBLAS_ORDER_CblasColMajor -> "ColumnMajor"
             [] OTHER -> PanicV)
      [] e = "Side" ->
          (CASE v = sys_enums.CBLAS_SIDE_CblasLeft -> "Left"
             [] v = sys_enums.CBLAS_SIDE_CblasRight -> "Right"
             [] OTHER -> PanicV)
      [] e = "Diag" ->
          (CASE v = sys_enums.CBLAS_DIAG_CblasNonUnit -> "NonUnit"
             [] v = sys_enums.CBLAS_DIAG_CblasUnit -> "Unit"
             [] OTHER -> PanicV)
      [] e = "Sort" ->
          (CASE v = sys_enums.gsl_eigen_sort_t_GSL_EIGEN_SORT_VAL_ASC -> "Asc"
             [] v = sys_enums.gsl_eigen_sort_t_GSL_EIGEN_SORT_VAL_DESC -> "Desc"
             [] v = sys_enums.gsl_eigen_sort_t_GSL_EIGEN_SORT_ABS_ASC -> "AbsAsc"
             [] v = sys_enums.gsl_eigen_sort_t_GSL_EIGEN_SORT_ABS_DESC -> "AbsDesc"
             [] OTHER -> PanicV)
      [] e = "VegasMode" ->
          (CASE v = sys_enums.GSL_VEGAS_MODE_IMPORTANCE -> "Importance"
             [] v = sys_enums.GSL_VEGAS_MODE_IMPORTANCE_ONLY -> "ImportanceOnly"
             [] v = sys_enums.GSL_VEGAS_MODE_STRATIFIED -> "Stratified"
             [] OTHER -> PanicV)
      [] e = "WaveletDirection" ->
          (CASE v = sys_enums.gsl_wavelet_direction_gsl_wavelet_forward -> "Forward"
             [] v = sys_enums.gsl_wavelet_direction_gsl_wavelet_backward -> "Backward"
             [] OTHER -> PanicV)
      [] e = "SfLegendreNorm" ->
          (CASE v = sys_enums.gsl_sf_legendre_t_GSL_SF_LEGENDRE_SCHMIDT -> "Schmidt"
             [] v = sys_enums.gsl_sf_legendre_t_GSL_SF_LEGENDRE_SPHARM -> "SphericalHarmonic"
             [] v = sys_enums.gsl_sf_legendre_t_GSL_SF_LEGENDRE_FULL -> "Full"
             [] v = sys_enums.gsl_sf_legendre_t_GSL_SF_LEGENDRE_NONE -> "None"
             [] OTHER -> PanicV)
      [] e = "FilterEnd" ->
          (CASE v = sys_enums.gsl_filter_end_t_GSL_FILTER_END_PADZERO -> "PadZero"
             [] v = sys_enums.gsl_filter_end_t_GSL_FILTER_END_PADVALUE -> "PadValue"
             [] v = sys_enums.gsl_filter_end_t_GSL_FILTER_END_TRUNCATE -> "Truncate"
             [] OTHER -> PanicV)
      [] e = "FilterScale" ->
          (CASE v = sys_enums.gsl_filter_scale_t_GSL_FILTER_SCALE_MAD -> "MedianAbsoluteDeviation"
             [] v = sys_enums.gsl_filter_scale_t_GSL_FILTER_SCALE_IQR -> "InterQuartileRange"
             [] v = sys_enums.gsl_filter_scale_t_GSL_FILTER_SCALE_SN -> "SN"
             [] v = sys_enums.gsl_filter_scale_t_GSL_FILTER_SCALE_QN -> "QN"
             [] OTHER -> PanicV)

\* From with Diag's catch-all arm returning a variant
from_lenient(e, v) ==
    CASE e = "Transpose" ->
          (CASE v = sys_enums.CBLAS_TRANSPOSE_CblasNoTrans -> "NoTranspose"
             [] v = sys_enums.CBLAS_TRANSPOSE_CblasTrans -> "Transpose"
             [] v = sys_enums.CBLAS_TRANSPOSE_CblasConjTrans -> "ConjugateTranspose"
             [] OTHER -> PanicV)
      [] e = "Uplo" ->
          (CASE v = sys_enums.CBLAS_UPLO_CblasUpper -> "Upper"
             [] v = sys_enums.CBLAS_UPLO_CblasLower -> "Lower"
             [] OTHER -> PanicV)
      [] e = "Order" ->
          (CASE v = sys_enums.CBLAS_ORDER_CblasRowMajor -> "RowMajor"
             [] v = sys_enums.CBLAS_ORDER_CblasColMajor -> "ColumnMajor"
             [] OTHER -> PanicV)
      [] e = "Side" ->
          (CASE v = sys_enums.CBLAS_SIDE_CblasLeft -> "Left"
             [] v = sys_enums.CBLAS_SIDE_CblasRight -> "Right"
             [] OTHER -> PanicV)
      [] e = "Diag" ->
          (CASE v = sys_enums.CBLAS_DIAG_CblasNonUnit -> "NonUnit"
             [] v = sys_enums.CBLAS_DIAG_CblasUnit -> "Unit"
             [] OTHER -> "NonUnit")
      [] e = "Sort" ->
          (CASE v = sys_enums.gsl_eigen_sort_t_GSL_EIGEN_SORT_VAL_ASC -> "Asc"
             [] v = sys_enums.gsl_eigen_sort_t_GSL_EIGEN_SORT_VAL_DESC -> "Desc"
             [] v = sys_enums.gsl_eigen_sort_t_GSL_EIGEN_SORT_ABS_ASC -> "AbsAsc"
             [] v = sys_enums.gsl_eigen_sort_t_GSL_EIGEN_SORT_ABS_DESC -> "AbsDesc"
             [] OTHER -> PanicV)
      [] e = "VegasMode" ->
          (CASE v = sys_enums.GSL_VEGAS_MODE_IMPORTANCE -> "Importance"
             [] v = sys_enums.GSL_VEGAS_MODE_IMPORTANCE_ONLY -> "ImportanceOnly"
             [] v = sys_enums.GSL_VEGAS_MODE_STRATIFIED -> "Stratified"
             [] OTHER -> PanicV)
      [] e = "WaveletDirection" ->
          (CASE v = sys_enums.gsl_wavelet_direction_gsl_wavelet_forward -> "Forward"
             [] v = sys_enums.gsl_wavelet_direction_gsl_wavelet_backward -> "Backward"
             [] OTHER -> PanicV)
      [] e = "SfLegendreNorm" ->
          (CASE v = sys_enums.gsl_sf_legendre_t_GSL_SF_LEGENDRE_SCHMIDT -> "Schmidt"
             [] v = sys_enums.gsl_sf_legendre_t_GSL_SF_LEGENDRE_SPHARM -> "SphericalHarmonic"
             [] v = sys_enums.gsl_sf_legendre_t_GSL_SF_LEGENDRE_FULL -> "Full"
             [] v = sys_enums.gsl_sf_legendre_t_GSL_SF_LEGENDRE_NONE -> "None"
             [] OTHER -> PanicV)
      [] e = "FilterEnd" ->
          (CASE v = sys_enums.gsl_filter_end_t_GSL_FILTER_END_PADZERO -> "PadZero"
             [] v = sys_enums.gsl_filter_end_t_GSL_FILTER_END_PADVALUE -> "PadValue"
             [] v = sys_enums.gsl_filter_end_t_GSL_FILTER_END_TRUNCATE -> "Truncate"
             [] OTHER -> PanicV)
      [] e = "FilterScale" ->
          (CASE v = sys_enums.gsl_filter_scale_t_GSL_FILTER_SCALE_MAD -> "MedianAbsoluteDeviation"
             [] v = sys_enums.gsl_filter_scale_t_GSL_FILTER_SCALE_IQR -> "InterQuartileRange"
             [] v = sys_enums.gsl_filter_scale_t_GSL_FILTER_SCALE_SN -> "SN"
             [] v = sys_enums.gsl_filter_scale_t_GSL_FILTER_SCALE_QN -> "QN"
             [] OTHER -> PanicV)

\* impl From<native> for each enum: one arm for every constant of the enum
\* and `_ => panic!("Unknown .. value")`
from(e, v) ==
    CASE e = "Transpose" ->
          (CASE v = sys_enums.CBLAS_TRANSPOSE_CblasNoTrans -> "NoTranspose"
             [] v = sys_enums.CBLAS_TRANSPOSE_CblasTrans -> "Transpose"
             [] v = sys_enums.CBLAS_TRANSPOSE_CblasConjTrans -> "ConjugateTranspose"
             [] OTHER -> PanicV)
      [] e = "Uplo" ->
          (CASE v = sys_enums.CBLAS_UPLO_CblasUpper -> "Upper"
             [] v = sys_enums.CBLAS_UPLO_CblasLower -> "Lower"
             [] OTHER -> PanicV)
      [] e = "Order" ->
          (CASE v = sys_enums.CBLAS_ORDER_CblasRowMajor -> "RowMajor"
             [] v = sys_enums.CBLAS_ORDER_CblasColMajor -> "ColumnMajor"
             [] OTHER -> PanicV)
      [] e = "Side" ->
          (CASE v = sys_enums.CBLAS_SIDE_CblasLeft -> "Left"
             [] v = sys_enums.CBLAS_SIDE_CblasRight -> "Right"
             [] OTHER -> PanicV)
      [] e = "Diag" ->
          (CASE v = sys_enums.CBLAS_DIAG_CblasNonUnit -> "NonUnit"
             [] v = sys_enums.CBLAS_DIAG_CblasUnit -> "Unit"
             [] OTHER -> PanicV)
      [] e = "Sort" ->
          (CASE v = sys_enums.gsl_eigen_sort_t_GSL_EIGEN_SORT_VAL_ASC -> "Asc"
             [] v = sys_enums.gsl_eigen_sort_t_GSL_EIGEN_SORT_VAL_DESC -> "Desc"
             [] v = sys_enums.gsl_eigen_sort_t_GSL_EIGEN_SORT_ABS_ASC -> "AbsAsc"
             [] v = sys_enums.gsl_eigen_sort_t_GSL_EIGEN_SORT_ABS_DESC -> "AbsDesc"
             [] OTHER -> PanicV)
      [] e = "VegasMode" ->
          (CASE v = sys_enums.GSL_VEGAS_MODE_IMPORTANCE -> "Importance"
             [] v = sys_enums.GSL_VEGAS_MODE_IMPORTANCE_ONLY -> "ImportanceOnly"
             [] v = sys_enums.GSL_VEGAS_MODE_STRATIFIED -> "Stratified"
             [] OTHER -> PanicV)
      [] e = "WaveletDirection" ->
          (CASE v = sys_enums.gsl_wavelet_direction_gsl_wavelet_forward -> "Forward"
             [] v = sys_enums.gsl_wavelet_direction_gsl_wavelet_backward -> "Backward"
             [] OTHER -> PanicV)
      [] e = "SfLegendreNorm" ->
          (CASE v = sys_enums.gsl_sf_legendre_t_GSL_SF_LEGENDRE_SCHMIDT -> "Schmidt"
             [] v = sys_enums.gsl_sf_legendre_t_GSL_SF_LEGENDRE_SPHARM -> "SphericalHarmonic"
             [] v = sys_enums.gsl_sf_legendre_t_GSL_SF_LEGENDRE_FULL -> "Full"
             [] v = sys_enums.gsl_sf_legendre_t_GSL_SF_LEGENDRE_NONE -> "None"
             [] OTHER -> PanicV)
      [] e = "FilterEnd" ->
          (CASE v = sys_enums.gsl_filter_end_t_GSL_FILTER_END_PADZERO -> "PadZero"
             [] v = sys_enums.gsl_filter_end_t_GSL_FILTER_END_PADVALUE -> "PadValue"
             [] v = sys_enums.gsl_filter_end_t_GSL_FILTER_END_TRUNCATE -> "Truncate"
             [] OTHER -> PanicV)
      [] e = "FilterScale" ->
          (CASE v = sys_enums.gsl_filter_scale_t_GSL_FILTER_SCALE_MAD -> "MedianAbsoluteDeviation"
             [] v = sys_enums.gsl_filter_scale_t_GSL_FILTER_SCALE_IQR -> "InterQuartileRange"
             [] v = sys_enums.gsl_filter_scale_t_GSL_FILTER_SCALE_SN -> "SN"
             [] v = sys_enums.gsl_filter_scale_t_GSL_FILTER_SCALE_QN -> "QN"
             [] OTHER -> PanicV)

\* native integers -MaxNative .. MaxNative and the CBLAS range are given to from()
MaxNative == 4
NativeInputs == (-MaxNative .. MaxNative) \cup (100 .. 143) \cup {I32_MIN, I32_MAX}

\* Into applied: to the input variant, or to the variant From returned
IntoStep ==
    /\ \/ /\ edir = "to" /\ pcEnum = "start"
          /\ ecode' = into(en, evar)
          /\ pcEnum' = "mid"
          /\ UNCHANGED ecode2
       \/ /\ edir = "from" /\ pcEnum = "mid"
          /\ ecode2' = into(en, evar)
          /\ pcEnum' = "done"
          /\ UNCHANGED ecode
    /\ UNCHANGED <<en, edir, evar, evar2>>
    /\ UNCHANGED <<codecVars, handlerVars, ownVars, callVars, thrVars, arrVars, givVars>>

\* From applied: to the input integer, or to the integer Into returned
FromStep ==
    /\ \/ /\ edir = "from" /\ pcEnum = "start"
          /\ evar' = from(en, ecode)
          /\ pcEnum' = IF from(en, ecode) = PanicV THEN "panicked" ELSE "mid"
          /\ UNCHANGED evar2
       \/ /\ edir = "to" /\ pcEnum = "mid"
          /\ evar2' = from(en, ecode)
          /\ pcEnum' = IF from(en, ecode) = PanicV THEN "panicked" ELSE "done"
          /\ UNCHANGED evar
    /\ UNCHANGED <<en, edir, ecode, ecode2>>
    /\ UNCHANGED <<codecVars, handlerVars, ownVars, callVars, thrVars, arrVars, givVars>>

(***************************************************************************)
(* set_handler and set_handler_off run by two threads, one statement of    *)
(* the source at a time: CALLBACK is a `static mut` with no lock.          *)
(***************************************************************************)
NoThreadCall == [op |-> "none", arg |-> None]
Reg(cb, hook) == [cb |-> cb, hook |-> hook]
ThreadCalls ==
    { [op |-> "set_handler", arg |-> f] : f \in Callbacks \cup {None} }
        \cup { [op |-> "set_handler_off", arg |-> None] }

Began(t) == [t |-> t, ev |-> "begin"]
Ended(t) == [t |-> t, ev |-> "end"]

\* thread t enters set_handler(f) or set_handler_off()
thr_begin(t, c) ==
    /\ ~aborted
    /\ tpc[t] = "idle"
    /\ tcall' = [tcall EXCEPT ![t] = c]
    /\ tpc' = [tpc EXCEPT ![t] = IF c.op = "set_handler" THEN "take" ELSE "hook"]
    /\ tlog' = Append(tlog, Began(t))
    /\ UNCHANGED <<tout, tret, tinit>>
    /\ UNCHANGED <<handlerVars, codecVars, ownVars, callVars, enumVars, arrVars, givVars>>

\* CALLBACK.take() leaving the slot as it is
thr_take_keep(t) ==
    /\ tpc[t] = "take"
    /\ tout' = [tout EXCEPT ![t] = CALLBACK]
    /\ CALLBACK' = CALLBACK
    /\ IF tcall[t].op = "set_handler"
       THEN /\ tpc' = [tpc EXCEPT ![t] = IF tcall[t].arg # None THEN "store" ELSE "hook"]
            /\ UNCHANGED <<tret, tlog>>
       ELSE /\ tpc' = [tpc EXCEPT ![t] = "done"]
            /\ tret' = [tret EXCEPT ![t] = CALLBACK]
            /\ tlog' = Append(tlog, Ended(t))
    /\ UNCHANGED <<tcall, tinit>>
    /\ UNCHANGED <<gsl_error_handler, lastCall, prevCall, report, invoked, ct, aborted>>
    /\ UNCHANGED <<codecVars, ownVars, callVars, enumVars, arrVars, givVars>>

\* CALLBACK.take(): `let out = CALLBACK.take();` of set_handler, and the
\* `CALLBACK.take()` that set_handler_off returns
thr_take(t) ==
    /\ tpc[t] = "take"
    /\ tout' = [tout EXCEPT ![t] = CALLBACK]
    /\ CALLBACK' = None
    /\ IF tcall[t].op = "set_handler"
       THEN /\ tpc' = [tpc EXCEPT ![t] = IF tcall[t].arg # None THEN "store" ELSE "hook"]
            /\ UNCHANGED <<tret, tlog>>
       ELSE /\ tpc' = [tpc EXCEPT ![t] = "done"]
            /\ tret' = [tret EXCEPT ![t] = CALLBACK]
            /\ tlog' = Append(tlog, Ended(t))
    /\ UNCHANGED <<tcall, tinit>>
    /\ UNCHANGED <<gsl_error_handler, lastCall, prevCall, report, invoked, ct, aborted>>
    /\ UNCHANGED <<codecVars, ownVars, callVars, enumVars, arrVars, givVars>>

\* `CALLBACK = Some(f);` of set_handler
thr_store(t) ==
    /\ tpc[t] = "store"
    /\ CALLBACK' = tcall[t].arg
    /\ tpc' = [tpc EXCEPT ![t] = "hook"]
    /\ UNCHANGED <<tcall, tout, tret, tlog, tinit>>
    /\ UNCHANGED <<gsl_error_handler, lastCall, prevCall, report, invoked, ct, aborted>>
    /\ UNCHANGED <<codecVars, ownVars, callVars, enumVars, arrVars, givVars>>

\* the native hook set: gsl_set_error_handler(Some(inner_error_handler)) or
\* gsl_set_error_handler(None), after which set_handler returns `out`;
\* gsl_set_error_handler_off(), the first statement of set_handler_off
thr_hook(t) ==
    /\ tpc[t] = "hook"
    /\ IF tcall[t].op = "set_handler"
       THEN /\ gsl_set_error_handler(IF tcall[t].arg # None
                                     THEN "inner_error_handler" ELSE None)
            /\ tpc' = [tpc EXCEPT ![t] = "done"]
            /\ tret' = [tret EXCEPT ![t] = tout[t]]
            /\ tlog' = Append(tlog, Ended(t))
       ELSE /\ gsl_set_error_handler_off
            /\ tpc' = [tpc EXCEPT ![t] = "take"]
            /\ UNCHANGED <<tret, tlog>>
    /\ UNCHANGED <<tcall, tout, tinit>>
    /\ UNCHANGED <<CALLBACK, lastCall, prevCall, report, invoked, ct, aborted>>
    /\ UNCHANGED <<codecVars, ownVars, callVars, enumVars, arrVars, givVars>>

(***************************************************************************)
(* Array-taking call-throughs.  A slice is modelled by its length.         *)
(***************************************************************************)
NoPoly == [made |-> FALSE, dd |-> 0, x |-> 0]
PolyDD(dd, x) == [made |-> TRUE, dd |-> dd, x |-> x]
NoPass == [none |-> TRUE]

\* H<F>: Full { h11, h21, h12, h22 }, OffDiag { h21, h12 }, Diag { h11, h22 }, Id
H_Full(h11, h21, h12, h22) ==
    [kind |-> "Full", h11 |-> h11, h21 |-> h21, h12 |-> h12, h22 |-> h22]
H_OffDiag(h21, h12) == [kind |-> "OffDiag", h21 |-> h21, h12 |-> h12]
H_Diag(h11, h22) == [kind |-> "Diag", h11 |-> h11, h22 |-> h22]
H_Id == [kind |-> "Id"]

(***************************************************************************)
(* Fixed-width arithmetic of the array wrappers.                           *)
(***************************************************************************)
\* a < b for two u32 held as halves
u32_lt(a, b) == a.hi < b.hi \/ (a.hi = b.hi /\ a.lo < b.lo)

\* a - b modulo 2^32 for two u32 held as halves
u32_wrapping_sub(a, b) ==
    LET borrow == IF a.lo < b.lo THEN 1 ELSE 0
    IN [hi |-> (a.hi - b.hi - borrow) % 65536, lo |-> (a.lo - b.lo) % 65536]

\* `u as i32` (`as _` at a c_int parameter): the 32 bits read as two's complement
as_i32(u) ==
    IF u.hi >= 32768 THEN (u.hi - 65536) * 65536 + u.lo
    ELSE u.hi * 65536 + u.lo

\* a - b does not fit in an i32
i32_sub_overflows(a, b) ==
    \/ a >= 0 /\ b < 0 /\ a > I32_MAX + b
    \/ a < 0 /\ b > 0 /\ a < I32_MIN + b

\* a - b modulo 2^32, as an i32
i32_wrapping_sub(a, b) == as_i32(u32_wrapping_sub(as_u32(a), as_u32(b)))

\* i32 arguments: around zero and both ends of the range
I32Inputs == (-1 .. MaxLen) \cup {I32_MIN, I32_MAX}
\* u32 arguments: small ones, 2^31 and the two largest
U32Inputs == { as_u32(n) : n \in (0 .. MaxLen) \cup {I32_MIN, -2, -1} }
\* the lengths of the slices
SliceLens == 0 .. MaxLen

(***************************************************************************)
(* What a call-through does around its native routine.                     *)
(***************************************************************************)
\* the native routine ran once, given `pass`, and returned st, having called
\* gsl_error where it reports its failure that way
NativeCore(r, a, pass, st, reported, outside) ==
    /\ ~aborted
    /\ Len(report) < MaxReports
    /\ rt' = r /\ arg' = a
    /\ ncalls' = 1
    /\ nstatus' = <<st>>
    /\ npass' = pass
    /\ oob' = outside
    /\ IF reported /\ st # sys.GSL_SUCCESS
       THEN gsl_error(Report(S_native, S_file, 1, st))
       ELSE UNCHANGED <<report, invoked, aborted>>
    /\ UNCHANGED <<CALLBACK, gsl_error_handler, lastCall, prevCall, ct>>
    /\ UNCHANGED <<codecVars, ownVars, enumVars, thrVars, givVars>>

\* what the caller gets after the native routine: val, or nothing when the
\* default handler aborted the process; a native routine that addressed
\* elements outside a slice (undefined behaviour) may also kill the process
Returned(st, reported, outside, val) ==
    (IF reported /\ st # sys.GSL_SUCCESS /\ gsl_error_handler = "NULL"
     THEN {NoOut} ELSE {val})
        \cup (IF outside THEN {NoOut} ELSE {})

\* `return val;` before the native call
ReturnsEarly(r, a, val) ==
    /\ ~aborted
    /\ rt' = r /\ arg' = a
    /\ ncalls' = 0
    /\ nstatus' = NoStatus
    /\ result' = val
    /\ UNCHANGED <<oob, handlerVars, codecVars, ownVars, enumVars, thrVars, arrVars, givVars>>

(***************************************************************************)
(* sf::mathieu: the *_array methods of the Mathieu workspace.              *)
(***************************************************************************)
MathieuArrays ==
    { "Mathieu::a_array", "Mathieu::b_array", "Mathieu::ce_array",
      "Mathieu::se_array", "Mathieu::Mc_array", "Mathieu::Ms_array" }

\* the native routine stores one value for each order of order_min ..
\* order_max: n elements are too few when order_max - order_min >= n
gsl_sf_mathieu_array_outside(order_min, order_max, n) ==
    /\ order_min <= order_max
    /\ \/ i32_sub_overflows(order_max, order_min)
       \/ order_max - order_min >= n

\* Mathieu::a_array(&mut self, order_min, order_max, q, result_array):
\*   let len = order_max - order_min;
\*   if len < 0 || len as usize > result_array.len() { return Err(Error::Invalid); }
\* then the native routine and Error::handle(ret, ()).  The subtraction
\* panics on overflow in a build with overflow checks and wraps without.
mathieu_array(r, order_min, order_max, n, overflow_checks, st, reported) ==
    LET a == [order_min |-> order_min, order_max |-> order_max, len |-> n,
              overflow_checks |-> overflow_checks]
    IN IF overflow_checks /\ i32_sub_overflows(order_max, order_min)
       THEN Panics(r, a)
       ELSE LET len == i32_wrapping_sub(order_max, order_min)
            IN IF len < 0 \/ len > n
               THEN ReturnsEarly(r, a, Err(Named("Invalid")))
               ELSE LET outside == gsl_sf_mathieu_array_outside(order_min, order_max, n)
                    IN /\ NativeCore(r, a, [order_min |-> order_min, order_max |-> order_max],
                                     st, reported, outside)
                       /\ result' \in Returned(st, reported, outside, handle(st, Unit))
                       /\ poly' = poly

(***************************************************************************)
(* sf::bessel: the *_array functions.                                      *)
(***************************************************************************)
BesselNArrays ==
    { "bessel::In_array", "bessel::In_scaled_array", "bessel::Jn_array",
      "bessel::Kn_array", "bessel::Kn_scaled_array", "bessel::Yn_array" }
BesselLArrays ==
    { "bessel::il_scaled_array", "bessel::jl_array", "bessel::jl_steed_array",
      "bessel::kl_scaled_array", "bessel::yl_array" }

\* `result_array.len() as _` compared with a u32: the low 32 bits of the length
usize_as_u32(n) == as_u32(n)

\* the native routine stores one value for each n of nmin .. nmax (c_int)
gsl_sf_bessel_array_outside(nmin, nmax, n) ==
    /\ nmin <= nmax
    /\ \/ i32_sub_overflows(nmax, nmin)
       \/ nmax - nmin >= n

\* bessel::In_array(nmin: u32, nmax: u32, x, result_array):
\*   assert!(nmax - nmin < result_array.len() as _);
\* then the native routine with `nmin as _, nmax as _` and Error::handle(ret, ()).
\* The subtraction panics on overflow in a build with overflow checks and
\* wraps without.
bessel_n_array(r, nmin, nmax, n, overflow_checks, st, reported) ==
    LET a == [nmin |-> nmin, nmax |-> nmax, len |-> n,
              overflow_checks |-> overflow_checks]
    IN IF overflow_checks /\ u32_lt(nmax, nmin)
       THEN Panics(r, a)
       ELSE IF ~u32_lt(u32_wrapping_sub(nmax, nmin), usize_as_u32(n))
       THEN Panics(r, a)
       ELSE LET outside == gsl_sf_bessel_array_outside(as_i32(nmin), as_i32(nmax), n)
            IN /\ NativeCore(r, a, [nmin |-> as_i32(nmin), nmax |-> as_i32(nmax)],
                             st, reported, outside)
               /\ result' \in Returned(st, reported, outside, handle(st, Unit))
               /\ poly' = poly

\* bessel::il_scaled_array(lmax: u32, x, result_array):
\*   assert!(lmax < result_array.len() as _);
\* then the native routine with `lmax as _` and Error::handle(ret, ())
bessel_l_array(r, lmax, n, st, reported) ==
    LET a == [lmax |-> lmax, len |-> n]
    IN IF ~u32_lt(lmax, usize_as_u32(n))
       THEN Panics(r, a)
       ELSE LET outside == gsl_sf_bessel_array_outside(0, as_i32(lmax), n)
            IN /\ NativeCore(r, a, [lmax |-> as_i32(lmax)], st, reported, outside)
               /\ result' \in Returned(st, reported, outside, handle(st, Unit))
               /\ poly' = poly

(***************************************************************************)
(* sf::coulomb: the *_array functions.                                     *)
(***************************************************************************)
CoulombOneArray ==
    { "coulomb::wave_F_array", "coulomb::wave_sphF_array", "coulomb::CL_array" }
CoulombArrays ==
    CoulombOneArray \cup { "coulomb::wave_FG_array", "coulomb::wave_FGp_array" }

\* the output slices of each function, by the name of the parameter
CoulombOuts(r) ==
    IF r \in CoulombOneArray THEN {"fc"}
    ELSE IF r = "coulomb::wave_FG_array" THEN {"fc", "gc"}
    ELSE {"fc", "fcp", "gc", "gcp"}

\* `fc_array.len() as i32`
usize_as_i32(n) == as_i32(as_u32(n))

\* the native routine computes L = Lmin .. Lmin + kmax: it stores kmax + 1
\* values in each output array
gsl_sf_coulomb_array_outside(kmax, lens) ==
    kmax >= 0 /\ \E l \in lens : kmax >= l

\* coulomb::wave_F_array(L_min, eta, x, fc_array), wave_FG_array(.., fc_array,
\* gc_array), wave_FGp_array(.., fc_array, fcp_array, gc_array, gcp_array),
\* wave_sphF_array, CL_array(Lmin, eta, cl): the native routine with
\* kmax = fc_array.len() as i32 and the slices as pointers, then
\* result_handler!(ret, payload)
coulomb_array(r, lens, st, reported) ==
    LET a == [o \in CoulombOuts(r) |-> lens[o]]
        kmax == usize_as_i32(lens["fc"])
        outside == gsl_sf_coulomb_array_outside(kmax, { lens[o] : o \in CoulombOuts(r) })
        ret == Value_from(st)
    IN /\ NativeCore(r, a, [kmax |-> kmax], st, reported, outside)
       /\ result' \in Returned(st, reported, outside,
                               IF is_success(ret) THEN Ok("exponent") ELSE Err(ret))
       /\ poly' = poly

(***************************************************************************)
(* polynomials::PolyDD: the divided-difference representation.             *)
(***************************************************************************)
PolyConstructors == { "PolyDD::new", "PolyDD::init", "PolyDD::poly_dd_hermite_init" }

\* gsl_poly_dd_init(dd, xa, ya, size): the three arrays have `size` entries
gsl_poly_dd_init_outside(ldd, lx, ly, size) ==
    size > ldd \/ size > lx \/ size > ly

\* gsl_poly_dd_hermite_init(dd, za, xa, ya, dya, size): xa, ya and dya have
\* `size` entries (the number of points), dd and za have 2 * size
gsl_poly_dd_hermite_init_outside(ldd, lz, lx, ly, ldy, size) ==
    \/ size > lx \/ size > ly \/ size > ldy
    \/ 2 * size > ldd \/ 2 * size > lz

\* gsl_poly_dd_eval(dd, xa, size, x): dd and xa have `size` entries
gsl_poly_dd_eval_outside(ldd, lx, size) == size > ldd \/ size > lx

\* gsl_poly_dd_taylor(c, xp, dd, xa, size, w): all four arrays have `size` entries
gsl_poly_dd_taylor_outside(lc, ldd, lx, size, lw) ==
    size > lc \/ size > ldd \/ size > lx \/ size > lw

\* the constructor hands Error::handle(ret, dd) to its caller: the PolyDD
\* exists when that is Ok
Built(ret, pd) == IF ret = Ok(pd) THEN pd ELSE NoPoly

\* PolyDD::new(x, y): panic! unless x.len() = y.len(); dd = x.to_owned(); the
\* native routine with dd.len(); PolyDD { dd, x: x.to_owned() }
PolyDD_new(lx, ly, st, reported) ==
    LET a == [x |-> lx, y |-> ly]
        ldd == lx
        outside == gsl_poly_dd_init_outside(ldd, lx, ly, ldd)
    IN IF lx # ly
       THEN Panics("PolyDD::new", a)
       ELSE /\ NativeCore("PolyDD::new", a, [size |-> ldd], st, reported, outside)
            /\ result' \in Returned(st, reported, outside, handle(st, PolyDD(ldd, lx)))
            /\ poly' = Built(result', PolyDD(ldd, lx))

\* PolyDD::init(dd, x, y): assert_eq!(dd.len(), x.len()); assert_eq!(x.len(),
\* y.len()); the native routine with dd.len(); PolyDD { dd, x }
PolyDD_init(ldd, lx, ly, st, reported) ==
    LET a == [dd |-> ldd, x |-> lx, y |-> ly]
        outside == gsl_poly_dd_init_outside(ldd, lx, ly, ldd)
    IN IF ldd # lx \/ lx # ly
       THEN Panics("PolyDD::init", a)
       ELSE /\ NativeCore("PolyDD::init", a, [size |-> ldd], st, reported, outside)
            /\ result' \in Returned(st, reported, outside, handle(st, PolyDD(ldd, lx)))
            /\ poly' = Built(result', PolyDD(ldd, lx))

\* PolyDD::poly_dd_hermite_init(dd, z, x, y, dy): assert_eq!(x.len(), y.len());
\* assert_eq!(y.len(), dy.len()); the native routine with dd.len() as its
\* size; PolyDD { dd, x: z }
poly_dd_hermite_init(ldd, lz, lx, ly, ldy, st, reported) ==
    LET a == [dd |-> ldd, z |-> lz, x |-> lx, y |-> ly, dy |-> ldy]
        outside == gsl_poly_dd_hermite_init_outside(ldd, lz, lx, ly, ldy, ldd)
    IN IF lx # ly \/ ly # ldy
       THEN Panics("PolyDD::poly_dd_hermite_init", a)
       ELSE /\ NativeCore("PolyDD::poly_dd_hermite_init", a, [size |-> ldd],
                          st, reported, outside)
            /\ result' \in Returned(st, reported, outside, handle(st, PolyDD(ldd, lz)))
            /\ poly' = Built(result', PolyDD(ldd, lz))

\* PolyDD::eval(&self, x): the native routine with self.dd, self.x and
\* self.len() = self.dd.len(); its value is returned
PolyDD_eval ==
    LET outside == gsl_poly_dd_eval_outside(poly.dd, poly.x, poly.dd)
    IN /\ ~aborted
       /\ poly.made
       /\ rt' = "PolyDD::eval" /\ arg' = [self_dd |-> poly.dd, self_x |-> poly.x]
       /\ ncalls' = 1
       /\ nstatus' = NoStatus
       /\ npass' = [size |-> poly.dd]
       /\ oob' = outside
       /\ result' \in {Plain("value")} \cup (IF outside THEN {NoOut} ELSE {})
       /\ poly' = poly
       /\ UNCHANGED <<handlerVars, codecVars, ownVars, enumVars, thrVars, givVars>>

\* PolyDD::taylor(&self, c, xp, w): assert_eq!(self.len(), c.len());
\* assert_eq!(self.len(), w.len()); the native routine with self.len();
\* Error::handle(ret, ())
PolyDD_taylor(lc, lw, st, reported) ==
    LET a == [self_dd |-> poly.dd, self_x |-> poly.x, c |-> lc, w |-> lw]
        outside == gsl_poly_dd_taylor_outside(lc, poly.dd, poly.x, poly.dd, lw)
    IN /\ poly.made
       /\ IF poly.dd # lc \/ poly.dd # lw
          THEN Panics("PolyDD::taylor", a)
          ELSE /\ NativeCore("PolyDD::taylor", a, [size |-> poly.dd], st, reported, outside)
               /\ result' \in Returned(st, reported, outside, handle(st, Unit))
               /\ poly' = poly

(***************************************************************************)
(* cblas::{s,d}::rotm and rotmg: the modified-Givens parameter array.      *)
(* The f32 / f64 entries are modelled by small integers.                   *)
(***************************************************************************)
MaxH == 1
HVals == -MaxH .. MaxH
HValues ==
    { H_Full(a, b, c, d) : a \in HVals, b \in HVals, c \in HVals, d \in HVals }
        \cup { H_OffDiag(b, c) : b \in HVals, c \in HVals }
        \cup { H_Diag(a, d) : a \in HVals, d \in HVals }
        \cup { H_Id }
H_Panic == [kind |-> "panic!"]

\* the flags cblas_?rotmg may leave in h[0], and others
MaxFlag == 3
ParamArrays ==
    { <<f, a, b, c, d>> : f \in -MaxFlag .. MaxFlag,
                          a \in HVals, b \in HVals, c \in HVals, d \in HVals }

\* rotm with the entries of OffDiag exchanged
rotm_p_swapped(h) ==
    CASE h.kind = "Full" -> <<-1, h.h11, h.h21, h.h12, h.h22>>
      [] h.kind = "OffDiag" -> <<0, 1, h.h12, h.h21, 1>>
      [] h.kind = "Diag" -> <<1, h.h11, -1, 1, h.h22>>
      [] h.kind = "Id" -> <<-2, 1, 0, 0, 1>>

\* rotm: `let p = match h { .. }`, the array handed to cblas_?rotm
rotm_p(h) ==
    CASE h.kind = "Full" -> <<-1, h.h11, h.h21, h.h12, h.h22>>
      [] h.kind = "OffDiag" -> <<0, 1, h.h21, h.h12, 1>>
      [] h.kind = "Diag" -> <<1, h.h11, -1, 1, h.h22>>
      [] h.kind = "Id" -> <<-2, 1, 0, 0, 1>>

\* rotmg: the dispatch on h[0] (the array is indexed from 0 in the source,
\* from 1 here) of the array cblas_?rotmg filled
rotmg_h(p) ==
    IF p[1] = -1 THEN H_Full(p[2], p[3], p[4], p[5])
    ELSE IF p[1] = 0 THEN H_OffDiag(p[3], p[4])
    ELSE IF p[1] = 1 THEN H_Diag(p[2], p[5])
    ELSE IF p[1] = -2 THEN H_Id
    ELSE H_Panic

\* rotm builds p from h
RotmStep ==
    /\ pcGiv = "start"
    /\ gp' = rotm_p(gh)
    /\ pcGiv' = "built"
    /\ UNCHANGED <<gh, gh2>>
    /\ UNCHANGED <<codecVars, handlerVars, ownVars, callVars, enumVars, thrVars, arrVars>>

\* rotmg decodes an array: the one rotm built, or one the native routine filled
RotmgStep ==
    /\ pcGiv \in {"built", "native"}
    /\ gh2' = rotmg_h(gp)
    /\ pcGiv' = IF pcGiv = "built" THEN "done" ELSE "decoded"
    /\ UNCHANGED <<gh, gp>>
    /\ UNCHANGED <<codecVars, handlerVars, ownVars, callVars, enumVars, thrVars, arrVars>>

(***************************************************************************)
(* Specifications.                                                         *)
(***************************************************************************)
\* the hook the process-wide startup routine leaves installed: the native
\* default (abort) handler turned off
StartupHook == "no_error_handler"

\* the registry after process startup: no callback stored
InitHandler ==
    /\ CALLBACK = None
    /\ gsl_error_handler = StartupHook
    /\ lastCall = NoCall
    /\ prevCall = NoCall
    /\ report = <<>>
    /\ invoked = <<>>
    /\ ct = NoCT
    /\ aborted = FALSE

IdleCodec ==
    /\ dir = "c2e" /\ code = 0 /\ res = Ok(Unit)
    /\ code2 = 0 /\ res2 = Ok(Unit) /\ pcCodec = "idle"

\* no wrapper allocated yet
InitOwn ==
    /\ owner = [h \in Wrappers |-> "unallocated"]
    /\ shared = [h \in Wrappers |-> 0]
    /\ excl = [h \in Wrappers |-> 0]
    /\ freed = [h \in Wrappers |-> 0]
    /\ data = [h \in Vectors |-> Zeros]
    /\ readback = [h \in Vectors |-> <<>>]
    /\ call = Idle
    /\ cres = Ok(Unit)
    /\ ptr = [h \in Wrappers |-> "unallocated"]
    /\ made = [h \in Wrappers |-> NotMade]

\* no call-through made yet
InitCall ==
    /\ rt = "-" /\ arg = NoArg
    /\ ncalls = 0
    /\ nstatus = NoStatus
    /\ result = NoOut
    /\ oob = FALSE

\* no conversion under way
IdleEnum ==
    /\ en = "-" /\ edir = "to" /\ evar = "-" /\ ecode = 0
    /\ evar2 = "-" /\ ecode2 = 0 /\ pcEnum = "idle"

\* no thread inside set_handler / set_handler_off
IdleThr ==
    /\ tpc = [t \in Threads |-> "idle"]
    /\ tcall = [t \in Threads |-> NoThreadCall]
    /\ tout = [t \in Threads |-> None]
    /\ tret = [t \in Threads |-> None]
    /\ tlog = <<>>
    /\ tinit = Reg(None, StartupHook)

\* no PolyDD built, nothing handed to a native routine
IdleArr ==
    /\ poly = NoPoly
    /\ npass = NoPass

\* no H value under conversion
IdleGiv ==
    /\ gh = H_Id /\ gp = <<>> /\ gh2 = H_Id /\ pcGiv = "idle"

InitRest == InitCall /\ IdleEnum /\ IdleThr /\ IdleArr /\ IdleGiv

Init == InitHandler /\ IdleCodec /\ InitOwn /\ InitRest

Next ==
    \/ \E f \in Callbacks \cup {None} : set_handler(f)
    \/ set_handler_off
    \/ \E r \in Reports : Deliver(r)
    \/ \E x \in K0Args : K0_e(x)

Spec == Init /\ [][Next]_vars

\* the codec applied to one input, in one of the two directions
InitCodec ==
    /\ InitHandler
    /\ InitOwn
    /\ InitRest
    /\ pcCodec = "start"
    /\ code2 = 0 /\ res2 = Ok(Unit)
    /\ \/ dir = "c2e" /\ code \in CodeInputs /\ res = Ok(Unit)
       \/ dir = "e2c" /\ res \in ResultInputs /\ code = 0

NextCodec == HandleStep \/ ToCStep

SpecCodec == InitCodec /\ [][NextCodec]_vars

\* the wrappers: allocation, borrows, call-throughs and drops
NextOwn ==
    \/ \E h \in Wrappers, isnull \in BOOLEAN : new(h, isnull)
    \/ \E h \in Wrappers : borrow_shared(h)
    \/ \E h \in Wrappers : borrow_exclusive(h)
    \/ \E h \in Wrappers : drop_shared(h)
    \/ \E h \in Wrappers : drop_exclusive(h)
    \/ \E h \in Vectors, vals \in Values : set_all(h, vals)
    \/ \E h \in Vectors : get_all(h)
    \/ \E h \in Wrappers : drop_owner(h)
    \/ \E ws \in Workspaces, x \in Vectors, y \in Vectors : gaussian(ws, x, y)
    \/ \E st \in VectorStatus, vals \in Values : gaussian_return(st, vals)
    \/ \E x \in Vectors, y \in Vectors : axpy(x, y)
    \/ \E st \in VectorStatus, vals \in Values : axpy_return(st, vals)
    \/ \E x \in Vectors, y \in Vectors : dot(x, y)
    \/ \E st \in VectorStatus : dot_return(st)

SpecOwn == Init /\ [][NextOwn]_vars

\* the registry as a program can have left it before a call-through: as the
\* startup left it, after set_handler(None), after set_handler(Some(f))
InitCallSpec ==
    /\ IdleCodec /\ InitOwn /\ InitRest
    /\ lastCall = NoCall /\ prevCall = NoCall
    /\ report = <<>> /\ invoked = <<>> /\ ct = NoCT /\ aborted = FALSE
    /\ \/ CALLBACK = None /\ gsl_error_handler = StartupHook
       \/ CALLBACK = None /\ gsl_error_handler = "NULL"
       \/ CALLBACK \in Callbacks /\ gsl_error_handler = "inner_error_handler"

\* no call-through made yet by the program
FirstCall == rt = "-"

\* one call-through of blas, cblas, multifit, power or polynomials
NextCall ==
    \/ FirstCall /\ \E r \in BlasLevel1, lx \in Lens, ly \in Lens : blas_level1(r, lx, ly)
    \/ FirstCall /\ \E r \in BlasRotm, lx \in Lens, ly \in Lens : blas_rotm(r, lx, ly)
    \/ FirstCall /\ \E r \in CblasLevel1, lx \in Lens, ly \in Lens : cblas_level1(r, lx, ly)
    \/ FirstCall /\ \E st \in Statuses, reported \in BOOLEAN : covar(st, reported)
    \/ FirstCall /\ \E st \in Statuses, reported \in BOOLEAN : pow_int_e(st, reported)
    \/ FirstCall /\ Cubic_roots

SpecCall == InitCallSpec /\ [][NextCall]_vars

\* gemv called once, with any shape of the bounds
NextGemv ==
    /\ FirstCall
    /\ \E order \in {"RowMajor", "ColumnMajor"},
          transA \in {"NoTranspose", "Transpose"},
          M \in Dims, N \in Dims, lda \in 1 .. MaxDim,
          incx \in Strides, incy \in Strides,
          A \in 0 .. MaxDim * MaxDim, X \in Dims, Y \in Dims :
           gemv(order, transA, M, N, A, lda, X, incx, Y, incy)

SpecGemv == Init /\ [][NextGemv]_vars

\* a transcoder applied to one input, in one of the two directions
InitEnum ==
    /\ InitHandler /\ IdleCodec /\ InitOwn /\ InitCall /\ IdleThr /\ IdleArr /\ IdleGiv
    /\ en \in Enums
    /\ pcEnum = "start"
    /\ evar2 = "-" /\ ecode2 = 0
    /\ \/ edir = "to" /\ evar \in Variants(en) /\ ecode = 0
       \/ edir = "from" /\ ecode \in NativeInputs /\ evar = "-"

NextEnum == IntoStep \/ FromStep

SpecEnum == InitEnum /\ [][NextEnum]_vars

\* two threads start on a registry that a sequential program has left: as
\* the startup left it, after set_handler(None), after set_handler(Some(f))
InitThr ==
    /\ IdleCodec /\ InitOwn /\ InitCall /\ IdleEnum /\ IdleArr /\ IdleGiv
    /\ lastCall = NoCall /\ prevCall = NoCall
    /\ report = <<>> /\ invoked = <<>> /\ ct = NoCT /\ aborted = FALSE
    /\ \/ CALLBACK = None /\ gsl_error_handler = StartupHook
       \/ CALLBACK = None /\ gsl_error_handler = "NULL"
       \/ CALLBACK \in Callbacks /\ gsl_error_handler = "inner_error_handler"
    /\ tinit = Reg(CALLBACK, gsl_error_handler)
    /\ tpc = [t \in Threads |-> "idle"]
    /\ tcall = [t \in Threads |-> NoThreadCall]
    /\ tout = [t \in Threads |-> None]
    /\ tret = [t \in Threads |-> None]
    /\ tlog = <<>>

\* each thread makes one call; the statements of the two calls interleave
NextThr ==
    \/ \E t \in Threads, c \in ThreadCalls : thr_begin(t, c)
    \/ \E t \in Threads : thr_take(t)
    \/ \E t \in Threads : thr_store(t)
    \/ \E t \in Threads : thr_hook(t)

SpecThr == InitThr /\ [][NextThr]_vars

\* one call of an array-taking routine of sf::mathieu, sf::bessel or
\* sf::coulomb, built with or without overflow checks
NextArr ==
    \/ FirstCall /\ \E r \in MathieuArrays, order_min \in I32Inputs, order_max \in I32Inputs,
                       n \in SliceLens, overflow_checks \in BOOLEAN,
                       st \in Statuses, reported \in BOOLEAN :
                        mathieu_array(r, order_min, order_max, n, overflow_checks, st, reported)
    \/ FirstCall /\ \E r \in BesselNArrays, nmin \in U32Inputs, nmax \in U32Inputs,
                       n \in SliceLens, overflow_checks \in BOOLEAN,
                       st \in Statuses, reported \in BOOLEAN :
                        bessel_n_array(r, nmin, nmax, n, overflow_checks, st, reported)
    \/ FirstCall /\ \E r \in BesselLArrays, lmax \in U32Inputs, n \in SliceLens,
                       st \in Statuses, reported \in BOOLEAN :
                        bessel_l_array(r, lmax, n, st, reported)
    \/ FirstCall /\ \E r \in CoulombArrays,
                       lens \in [{"fc", "fcp", "gc", "gcp"} -> SliceLens],
                       st \in Statuses, reported \in BOOLEAN :
                        coulomb_array(r, lens, st, reported)

SpecArr == InitCallSpec /\ [][NextArr]_vars

\* a PolyDD is built by one of the three constructors and then used once
Constructed == rt \in PolyConstructors

NextPoly ==
    \/ FirstCall /\ \E lx \in SliceLens, ly \in SliceLens,
                       st \in Statuses, reported \in BOOLEAN :
                        PolyDD_new(lx, ly, st, reported)
    \/ FirstCall /\ \E ldd \in SliceLens, lx \in SliceLens, ly \in SliceLens,
                       st \in Statuses, reported \in BOOLEAN :
                        PolyDD_init(ldd, lx, ly, st, reported)
    \/ FirstCall /\ \E ldd \in SliceLens, lz \in SliceLens, lx \in SliceLens,
                       ly \in SliceLens, ldy \in SliceLens,
                       st \in Statuses, reported \in BOOLEAN :
                        poly_dd_hermite_init(ldd, lz, lx, ly, ldy, st, reported)
    \/ Constructed /\ PolyDD_eval
    \/ Constructed /\ \E lc \in SliceLens, lw \in SliceLens,
                         st \in Statuses, reported \in BOOLEAN :
                          PolyDD_taylor(lc, lw, st, reported)

SpecPoly == InitCallSpec /\ [][NextPoly]_vars

\* an H value given to rotm, or a parameter array given to the dispatch of rotmg
InitGiv ==
    /\ InitHandler /\ IdleCodec /\ InitOwn /\ InitCall /\ IdleEnum /\ IdleThr /\ IdleArr
    /\ gh2 = H_Id
    /\ \/ gh \in HValues /\ gp = <<>> /\ pcGiv = "start"
       \/ gh = H_Id /\ gp \in ParamArrays /\ pcGiv = "native"

NextGiv == RotmStep \/ RotmgStep

SpecGiv == InitGiv /\ [][NextGiv]_vars

(***************************************************************************)
(* Properties.                                                             *)
(***************************************************************************)
NamedResults == { Err(e) : e \in NamedErrors }
IsSetSome(c) == c.op = "set_handler" /\ c.arg # None
IsSetNone(c) == c.op = "set_handler" /\ c.arg = None
IsOff(c) == c.op = "set_handler_off"

\* the reports among rs that carry a failure code
FailureReports(rs) == SelectSeq(rs, LAMBDA r : r.gsl_errno # sys.GSL_SUCCESS)

\* the u32 u has the value of the integer n
U32Is(u, n) == n >= 0 /\ u.hi = n \div 65536 /\ u.lo = n % 65536

\* C1: Error::handle and Error::to_c are inverse on every named value:
\* handle(to_c(Err(e)), ()) = Err(e) for every named variant e,
\* to_c(handle(c, ())) = c for every named code c (GSL_SUCCESS included),
\* and no two named variants share a native code.
C1_RoundTripNamed ==
    /\ (dir = "e2c" /\ pcCodec = "done" /\ res \in NamedResults) => res2 = res
    /\ (dir = "c2e" /\ pcCodec = "done" /\ code \in NamedCodes \cup {sys.GSL_SUCCESS})
          => code2 = code
    /\ (dir = "e2c" /\ pcCodec \in {"mid", "done"} /\ res \in NamedResults)
          => \A e \in NamedErrors : to_c(Err(e)) = code => Err(e) = res

\* C1 witness: the variant MaxIteration went to the code 11 and came back.
C1_Witness ==
    /\ dir = "e2c" /\ pcCodec = "done"
    /\ res = Err(Named("MaxIteration"))
    /\ code = 11
    /\ res2 = Err(Named("MaxIteration"))

\* C2: Error::handle is total over the 32-bit integers: it returns for every
\* code, returns Err(Unknown(c)) carrying c for every code c that is neither
\* GSL_SUCCESS nor a named failure code, and to_c(handle(c, ())) = c for
\* every c.
C2_HandleTotal ==
    /\ code \in c_int
    /\ (dir = "c2e" /\ pcCodec = "start") => ENABLED HandleStep
    /\ (dir = "c2e" /\ pcCodec \in {"mid", "done"}
          /\ code \notin NamedCodes \cup {sys.GSL_SUCCESS})
          => res = Err(Unknown(code))
    /\ (dir = "c2e" /\ pcCodec = "done") => code2 = code

\* C2 witness: the smallest i32 was decoded to Unknown and encoded back.
C2_Witness ==
    /\ dir = "c2e" /\ pcCodec = "done"
    /\ code = I32_MIN
    /\ res = Err(Unknown(I32_MIN))
    /\ code2 = I32_MIN

\* C3: handler restore: after old = set_handler(Some(f)) followed by
\* set_handler(old), the stored callback and the hook installed in the native
\* library are what they were before the first of the two calls.
C3_HandlerRestore ==
    (IsSetSome(prevCall) /\ lastCall.op = "set_handler" /\ lastCall.arg = prevCall.ret)
        => (CALLBACK = prevCall.pre.cb /\ gsl_error_handler = prevCall.pre.hook)

\* C4 as stated: in every reachable state the native default print-and-abort
\* handler is not the installed hook, and no native error has terminated the
\* process.
C4_NeverDefaultHandler == gsl_error_handler # "NULL" /\ ~aborted

\* C4 amended: the native default print-and-abort handler is the installed
\* hook exactly when the latest handler call was set_handler(None), and only
\* then can a native error terminate the process; after startup,
\* set_handler(Some(f)) and set_handler_off() it is not installed.
C4_DefaultHandlerOnlyAfterSetNone ==
    /\ gsl_error_handler = "NULL" <=> IsSetNone(lastCall)
    /\ aborted => IsSetNone(lastCall)

\* C4 witness: set_handler_off() after set_handler(None) replaced the default
\* handler, and a failure report was then delivered without an abort.
C4_Witness ==
    /\ IsSetNone(prevCall) /\ IsOff(lastCall)
    /\ lastCall.pre.hook = "NULL"
    /\ gsl_error_handler = "no_error_handler"
    /\ report = <<R_underflow>>
    /\ ~aborted

\* C5: set_handler(Some(f)) makes f the single registered callback and returns
\* the callback stored immediately before; at most one callback is registered
\* (and invoked) at a time; and the value each call returns is the argument of
\* the latest earlier set_handler(Some(_)) that no later call has displaced,
\* None if there is none.
C5_SetSomeRegisters ==
    /\ CALLBACK \in Callbacks \cup {None}
    /\ IsSetSome(lastCall) =>
          (CALLBACK = lastCall.arg /\ lastCall.ret = lastCall.pre.cb)
    /\ lastCall.op # "none" =>
          lastCall.ret = (IF IsSetSome(prevCall) THEN prevCall.arg ELSE None)
    /\ \A i \in 1 .. Len(invoked) : invoked[i].cb = CALLBACK

\* C5 witness: set_handler(Some(g)) displaced f and returned it.
C5_Witness ==
    /\ IsSetSome(lastCall) /\ lastCall.arg = "g" /\ lastCall.ret = "f"
    /\ lastCall.pre.hook = "inner_error_handler"
    /\ CALLBACK = "g"

\* C6: set_handler(None) and set_handler_off() return the previously stored
\* callback and leave no callback stored, and a native error arriving
\* afterwards invokes no Rust callback.
C6_SetNoneAndOffClear ==
    (IsSetNone(lastCall) \/ IsOff(lastCall)) =>
        /\ CALLBACK = None
        /\ lastCall.ret = lastCall.pre.cb
        /\ invoked = <<>>

\* C6 witness: set_handler_off() returned the stored f and two failure
\* reports then arrived.
C6_Witness ==
    /\ IsOff(lastCall) /\ lastCall.ret = "f"
    /\ report = <<R_underflow, R_domain>>
    /\ CALLBACK = None /\ invoked = <<>>

\* what the latest handler call left in the registry
RegistryAfter(c) ==
    [ cb |-> IF IsSetSome(c) THEN c.arg ELSE None,
      hook |-> IF IsSetSome(c) THEN "inner_error_handler"
               ELSE IF IsSetNone(c) THEN "NULL" ELSE "no_error_handler" ]

\* C7 as stated: while a callback is registered every report with a failure
\* code invokes it exactly once with the same reason, file and line and the
\* Error that Error::handle gives; a report with the success code, or one
\* arriving with no callback stored, invokes nothing; delivery leaves the
\* registry unchanged.
C7_DeliverSameText ==
    LET fr == FailureReports(report)
    IN /\ Pre = RegistryAfter(lastCall)
       /\ CALLBACK = None => invoked = <<>>
       /\ CALLBACK # None =>
            /\ Len(invoked) = Len(fr)
            /\ \A i \in 1 .. Len(fr) :
                 /\ invoked[i].cb = CALLBACK
                 /\ invoked[i].reason = fr[i].reason
                 /\ invoked[i].file = fr[i].file
                 /\ U32Is(invoked[i].line, fr[i].line)
                 /\ Err(invoked[i].err) = handle(fr[i].gsl_errno, Unit)

\* C7 amended: as C7, but the callback receives the reason and the file as
\* text, the same text when the C string is valid UTF-8 and "Unknown"
\* otherwise, and the line converted to u32, the same number when it is not
\* negative.
C7_DeliverDecoded ==
    LET fr == FailureReports(report)
    IN /\ Pre = RegistryAfter(lastCall)
       /\ CALLBACK = None => invoked = <<>>
       /\ CALLBACK # None =>
            /\ Len(invoked) = Len(fr)
            /\ \A i \in 1 .. Len(fr) :
                 /\ invoked[i].cb = CALLBACK
                 /\ invoked[i].reason =
                      (IF Utf8Valid(fr[i].reason) THEN fr[i].reason ELSE UnknownStr)
                 /\ invoked[i].file =
                      (IF Utf8Valid(fr[i].file) THEN fr[i].file ELSE UnknownStr)
                 /\ (fr[i].line >= 0 => U32Is(invoked[i].line, fr[i].line))
                 /\ (fr[i].line = -1 => invoked[i].line = [hi |-> 65535, lo |-> 65535])
                 /\ Err(invoked[i].err) = handle(fr[i].gsl_errno, Unit)

\* C7 witness: with f registered, a report with the success code invoked
\* nothing and an underflow report invoked f once, with its text and line.
C7_Witness ==
    /\ CALLBACK = "f"
    /\ report = << Report(S_underflow, S_file, 1, sys.GSL_SUCCESS), R_underflow >>
    /\ invoked = << [ cb |-> "f", reason |-> S_underflow, file |-> S_file,
                      line |-> [hi |-> 0, lo |-> 120],
                      err |-> Named("UnderFlow") ] >>

\* C8: after set_handler_off(), a call-through whose native routine reports a
\* failure returns that failure decoded (K0_e(1e3) returns
\* Err(Error::UnderFlow)); the process is not aborted and no callback is
\* invoked.
C8_OffReturnsFailure ==
    (IsOff(lastCall) /\ ct.x \in K0Args) =>
        /\ ct.returned
        /\ ct.x = 1000 => ct.ret = Err(Named("UnderFlow"))
        /\ ct.x = 0 => ct.ret = Err(Named("Domain"))
        /\ ct.x = 1 => ct.ret = Ok("result")
        /\ ~aborted
        /\ invoked = <<>>

\* C8 witness: K0_e(1e3) after set_handler_off() returned Err(UnderFlow).
C8_Witness ==
    /\ IsOff(lastCall)
    /\ ct = [x |-> 1000, returned |-> TRUE, ret |-> Err(Named("UnderFlow"))]
    /\ report = <<R_underflow>>
    /\ invoked = <<>> /\ ~aborted

C10_ReleaseOnce ==
    \A h \in Wrappers :
        /\ freed[h] = (IF owner[h] = "dropped" THEN 1 ELSE 0)
        /\ owner[h] = "dropped" => (shared[h] = 0 /\ excl[h] = 0)
        /\ owner[h] \in {"unallocated", "none"} => (shared[h] = 0 /\ excl[h] = 0)

\* C10 witness: the scenario's end: the vector was written [1,2,3,4,5]
\* through an exclusive view, read back through two shared views live
\* together, and its owner dropped with one release call.
C10_Witness ==
    /\ owner["v1"] = "dropped"
    /\ freed["v1"] = 1
    /\ data["v1"] = OneToFive
    /\ readback["v1"] = <<OneToFive, OneToFive>>
    /\ shared["v1"] = 0 /\ excl["v1"] = 0

(***************************************************************************)
(* Construction from a null handle.                                        *)
(***************************************************************************)
\* C11 (as stated): when the native allocation routine returns a null handle,
\* construction signals Error::NoMemory, no wrapper exists around the handle
\* and its release routine is never called.
C11_NullSignalsNoMemory ==
    \A h \in Wrappers :
        ptr[h] = "null" =>
            /\ made[h] = Err(Named("NoMemory"))
            /\ owner[h] = "none"
            /\ freed[h] = 0

\* C11 (amended): when the native allocation routine returns a null handle,
\* the constructor returns None (no Error value), no wrapper exists around
\* the handle, no view of it is ever taken and its release routine is never
\* called.
C11_NullReturnsNone ==
    \A h \in Wrappers :
        ptr[h] = "null" =>
            /\ made[h] = OptNone
            /\ owner[h] = "none"
            /\ shared[h] = 0 /\ excl[h] = 0
            /\ freed[h] = 0

\* a null handle was returned for the workspace while a vector is in use
C11_Witness ==
    \E h \in Workspaces, v \in Vectors :
        /\ ptr[h] = "null" /\ made[h] = OptNone
        /\ owner[v] = "dropped" /\ freed[v] = 1

(***************************************************************************)
(* Length checks of the two-vector routines.                               *)
(***************************************************************************)
Unequal == arg.lenx # arg.leny
Equal == arg.lenx = arg.leny
TwoVector == rt \in BlasLevel1 \cup BlasRotm \cup CblasLevel1

\* C12 (as stated): a call-through that takes two vector views (blas::s::axpy,
\* blas::d::dot, blas::s::swap, blas::s::rotm, ..) and is called with views of
\* unequal length returns Err(Error::BadLength), its native routine invoked
\* zero times.
C12_ShapeCheckBeforeNative ==
    (rt \in BlasLevel1 \cup BlasRotm /\ Unequal) =>
        /\ result = Err(Named("BadLength"))
        /\ ncalls = 0

\* C12 (amended): called with views of unequal length, the blas routines other
\* than rotm invoke their native routine exactly once and it is that routine
\* which finds the mismatch: they return Err(Error::BadLength) decoded from
\* its status unless the native default handler has aborted the process;
\* blas::s::rotm and blas::d::drotm return nothing: they panic, their native
\* routine invoked zero times.
C12_NativeFindsMismatch ==
    /\ (rt \in BlasLevel1 /\ Unequal) =>
          /\ ncalls = 1
          /\ nstatus = <<sys.GSL_EBADLEN>>
          /\ IF aborted THEN result = NoOut
             ELSE result = Err(Named("BadLength"))
    /\ (rt \in BlasRotm /\ Unequal) =>
          /\ ncalls = 0
          /\ result = Panic

\* blas::s::axpy was given lengths 3 and 2
C12_Witness ==
    /\ rt = "blas::s::axpy" /\ arg = TwoLens(3, 2)
    /\ ncalls = 1 /\ result = Err(Named("BadLength"))

\* C13 (as stated): every two-vector Level-1 routine of blas::{s,d,c,z} and of
\* cblas::{s,d,c,z} panics when the two lengths differ, before the native
\* routine is invoked; with equal lengths the native routine is invoked once.
C13_Level1Panics ==
    TwoVector =>
        /\ Unequal => (result = Panic /\ ncalls = 0)
        /\ Equal => ncalls = 1

\* C13 (amended): the two-vector Level-1 routines of cblas::{s,d,c,z}, and
\* blas::s::rotm and blas::d::drotm, panic when the two lengths differ, before
\* the native routine is invoked; the other two-vector routines of
\* blas::{s,d,c,z} never panic; with equal lengths every one of them invokes
\* its native routine exactly once.
C13_CblasAndRotmPanic ==
    /\ (rt \in CblasLevel1 \cup BlasRotm /\ Unequal) => (result = Panic /\ ncalls = 0)
    /\ rt \in BlasLevel1 => result # Panic
    /\ (TwoVector /\ Equal) => (ncalls = 1 /\ result # Panic)

\* cblas::s::axpy was given lengths 3 and 2 and panicked
C13_Witness ==
    /\ rt = "cblas::s::axpy" /\ arg = TwoLens(3, 2)
    /\ result = Panic /\ ncalls = 0

(***************************************************************************)
(* The native status reaching the caller.                                  *)
(***************************************************************************)
HandleBased == BlasLevel1 \cup BlasRotm \cup {"multifit::covar"}
Payloads == {Unit, "result"}

Consistent(a) == ~cblas_sgemv_rejects(a) /\ ~cblas_sgemv_outside(a)

\* C17: cblas::s::gemv invokes its native routine only when M, N, lda, incx
\* and incy are consistent with the lengths of A, X and Y, so that the native
\* routine never addresses an element outside a slice it was given.
C17_GemvShapesChecked ==
    rt = "cblas::s::gemv" =>
        /\ ncalls > 0 => Consistent(arg)
        /\ ~oob

(***************************************************************************)
(* The enum transcoders.                                                   *)
(***************************************************************************)
\* the native constants of an enum
OwnConstants(e) == { into(e, v) : v \in Variants(e) }

\* C15: each transcoder is a total, injective, two-way mapping: converting a
\* variant to its native constant never fails, distinct variants of one enum
\* give distinct constants, and converting the constant back gives the
\* original variant.
C15_EnumRoundTrip ==
    /\ \A e \in Enums : \A v, w \in Variants(e) :
          /\ into(e, v) \in c_int
          /\ v # w => into(e, v) # into(e, w)
    /\ (edir = "to" /\ pcEnum # "start") =>
          /\ pcEnum \in {"mid", "done"}
          /\ ecode = into(en, evar)
          /\ pcEnum = "done" => evar2 = evar

\* Uplo::Lower went to CblasLower and came back as Lower
C15_Witness ==
    /\ en = "Uplo" /\ edir = "to" /\ pcEnum = "done"
    /\ evar = "Lower" /\ ecode = 122 /\ evar2 = "Lower"

\* C16: conversion from a native integer returns a variant only when the
\* integer is one of that enum's own constants, and converting the variant
\* back then gives the same integer; for every other integer the conversion
\* panics and returns no variant.
C16_FromOnlyOwnConstants ==
    (edir = "from" /\ pcEnum # "start") =>
        IF ecode \in OwnConstants(en)
        THEN /\ pcEnum \in {"mid", "done"}
             /\ evar \in Variants(en)
             /\ pcEnum = "done" => ecode2 = ecode
        ELSE /\ pcEnum = "panicked"
             /\ evar = PanicV

\* Diag's conversion was given CblasLeft, a constant of Side, and panicked
C16_Witness ==
    /\ en = "Diag" /\ edir = "from"
    /\ ecode = sys_enums.CBLAS_SIDE_CblasLeft
    /\ pcEnum = "panicked"

(***************************************************************************)
(* The in-place filter.                                                    *)
(***************************************************************************)
\* C18: FilterGaussianWorkspace::gaussian may be called with the same vector
\* as input x and output y: whenever the workspace and a vector are live and
\* no view of them is held, the call gaussian(ws, v, v) can be made.
C18_InPlaceAllowed ==
    \A ws \in Workspaces, v \in Vectors :
        (call = Idle /\ unwrap_unique(ws) /\ unwrap_unique(v))
            => ENABLED gaussian(ws, v, v)

(***************************************************************************)
(* The round trip of every Error value.                                    *)
(***************************************************************************)
\* C19 (as stated): for every Error value e, named or Unknown(n) for any i32
\* n, Error::handle(Error::to_c(Err(e)), ()) = Err(e); Error::to_c returns
\* GSL_SUCCESS only for Ok(()).
C19_RoundTripEveryError ==
    /\ (dir = "e2c" /\ pcCodec = "done") => res2 = res
    /\ (dir = "e2c" /\ pcCodec \in {"mid", "done"} /\ code = sys.GSL_SUCCESS)
          => res = Ok(Unit)

\* C19 (amended): Error::to_c(Err(Unknown(n))) = n for every n, and the round
\* trip gives Err(e) back for every named e and for Unknown(n) when n is
\* neither GSL_SUCCESS nor a named code; Unknown(GSL_SUCCESS) is encoded as
\* GSL_SUCCESS and decodes to Ok(()), and Unknown(n) for a named code n
\* decodes to the named variant of n, not to Unknown(n).
C19_RoundTripUnlessNamedCode ==
    (dir = "e2c" /\ pcCodec = "done" /\ ~res.ok) =>
        IF res.err.kind # "Unknown"
        THEN res2 = res /\ code # sys.GSL_SUCCESS
        ELSE /\ code = res.err.code
             /\ IF code = sys.GSL_SUCCESS THEN res2 = Ok(Unit)
                ELSE IF code \in NamedCodes
                     THEN res2 \in NamedResults /\ to_c(res2) = code
                     ELSE res2 = res

\* Unknown(1) went to the code 1 (GSL_EDOM) and came back as Domain
C19_Witness ==
    /\ dir = "e2c" /\ pcCodec = "done"
    /\ res = Err(Unknown(sys.GSL_EDOM))
    /\ code = sys.GSL_EDOM
    /\ res2 = Err(Named("Domain"))

(***************************************************************************)
(* Two concurrent handler calls.                                           *)
(***************************************************************************)
\* the registry and the return value of the call c made alone on registry r
Alone(r, c) ==
    IF c.op = "set_handler"
    THEN [reg |-> Reg(c.arg, IF c.arg # None THEN "inner_error_handler" ELSE "NULL"),
          ret |-> r.cb]
    ELSE [reg |-> Reg(None, "no_error_handler"), ret |-> r.cb]

\* the final registry and the two return values are those of the call of a
\* made first and the call of b made after it
InOrder(a, b) ==
    LET x == Alone(tinit, tcall[a])
        y == Alone(x.reg, tcall[b])
    IN /\ Reg(CALLBACK, gsl_error_handler) = y.reg
       /\ tret[a] = x.ret
       /\ tret[b] = y.ret

BothDone == \A t \in Threads : tpc[t] = "done"
Sequential == InOrder("t1", "t2") \/ InOrder("t2", "t1")
\* the second call began before the first one ended
Overlapped == Len(tlog) >= 2 /\ tlog[2].ev = "begin"

\* C20: set_handler and set_handler_off are not atomic.  Two calls that do
\* not overlap leave the registry and return the values of their sequential
\* order, so an outcome that matches no sequential order of the two calls
\* comes from interleaved steps only; and such an outcome exists (the state
\* C20_Witness is reached).
C20_AnomalyNeedsInterleaving ==
    BothDone =>
        /\ ~Overlapped =>
              InOrder(tlog[1].t, tlog[3].t)
        /\ ~Sequential => Overlapped

\* two concurrent set_handler(Some(..)) calls on a registry holding no
\* callback have both returned None: the final state and return values match
\* no sequential order, and one of the two callbacks is neither stored nor
\* returned by any call
C20_Witness ==
    /\ BothDone
    /\ ~Sequential
    /\ tinit.cb = None
    /\ tcall["t1"] = [op |-> "set_handler", arg |-> "f"]
    /\ tcall["t2"] = [op |-> "set_handler", arg |-> "g"]
    /\ tret["t1"] = None /\ tret["t2"] = None
    /\ CALLBACK = "g"

(***************************************************************************)
(* The Mathieu array methods.                                              *)
(***************************************************************************)
\* result_array holds a value for each order of order_min .. order_max
MathieuSuffices(a) ==
    /\ ~i32_sub_overflows(a.order_max, a.order_min)
    /\ a.order_max - a.order_min < a.len

\* C21: whenever a Mathieu *_array method invokes the native routine for
\* order_min <= order_max, result_array.len() >= order_max - order_min + 1; a
\* shorter array is rejected with Err(Error::Invalid) before the native call.
C21_MathieuArrayHoldsRange ==
    (rt \in MathieuArrays /\ arg.order_min <= arg.order_max
        /\ ~i32_sub_overflows(arg.order_max, arg.order_min)) =>
        /\ ncalls > 0 => MathieuSuffices(arg)
        /\ ~MathieuSuffices(arg) => (ncalls = 0 /\ result = Err(Named("Invalid")))

\* C22: for all i32 order_min and order_max, those whose difference does not
\* fit in an i32 included, a Mathieu *_array method invokes the native routine
\* only if order_min <= order_max; otherwise it returns Err(Error::Invalid)
\* without invoking it.
C22_MathieuOrderChecked ==
    rt \in MathieuArrays =>
        /\ ncalls > 0 => arg.order_min <= arg.order_max
        /\ arg.order_min > arg.order_max =>
              (ncalls = 0 /\ result = Err(Named("Invalid")) /\ ~oob)

(***************************************************************************)
(* The Bessel and Coulomb array functions.                                 *)
(***************************************************************************)
\* nmin <= nmax and result_array holds nmax - nmin + 1 elements
BesselNSuffices(a) ==
    /\ ~u32_lt(a.nmax, a.nmin)
    /\ u32_lt(u32_wrapping_sub(a.nmax, a.nmin), as_u32(a.len))

\* result_array holds lmax + 1 elements
BesselLSuffices(a) == u32_lt(a.lmax, as_u32(a.len))

\* C23: the Bessel array functions invoke the native routine only if
\* nmin <= nmax and result_array holds at least nmax - nmin + 1 elements
\* (lmax + 1 elements for the functions taking lmax); for every other u32
\* input, nmax < nmin included, they panic before the native call.
C23_BesselArrayChecked ==
    /\ rt \in BesselNArrays =>
          /\ ncalls > 0 => BesselNSuffices(arg)
          /\ ~BesselNSuffices(arg) => (ncalls = 0 /\ result = Panic)
    /\ rt \in BesselLArrays =>
          /\ ncalls > 0 => BesselLSuffices(arg)
          /\ ~BesselLSuffices(arg) => (ncalls = 0 /\ result = Panic)

\* C24: for wave_F_array, wave_sphF_array and CL_array the kmax passed to the
\* native routine satisfies kmax + 1 <= length of the output slice, so the
\* native routine never writes past the end of the slice.
C24_CoulombKmaxFits ==
    (rt \in CoulombOneArray /\ ncalls > 0) =>
        /\ npass.kmax + 1 <= arg.fc
        /\ ~oob

\* C25: wave_FG_array and wave_FGp_array invoke the native routine only when
\* every output slice is at least as long as the number of values (kmax + 1)
\* the native routine writes for the kmax derived from fc_array.len(); a
\* secondary slice shorter than fc_array is rejected before the native call.
C25_CoulombSecondarySlicesChecked ==
    rt \in {"coulomb::wave_FG_array", "coulomb::wave_FGp_array"} =>
        /\ ncalls > 0 => \A o \in DOMAIN arg : arg[o] >= npass.kmax + 1
        /\ (\E o \in DOMAIN arg : arg[o] < arg.fc) => ncalls = 0

(***************************************************************************)
(* PolyDD.                                                                 *)
(***************************************************************************)
\* x, y and dy have equal length n, dd and z have length 2 * n
HermiteShapes(a) ==
    /\ a.x = a.y /\ a.y = a.dy
    /\ a.dd = 2 * a.x /\ a.z = 2 * a.x

\* C26: poly_dd_hermite_init invokes the native routine only when x, y and dy
\* have equal length n and dd and z each have length 2 * n, and it passes n as
\* the native size, so that the native routine stays inside the five slices;
\* any other combination of lengths panics before the native call.
C26_HermiteShapesChecked ==
    rt = "PolyDD::poly_dd_hermite_init" =>
        /\ ncalls > 0 => (HermiteShapes(arg) /\ npass.size = arg.x /\ ~oob)
        /\ ~HermiteShapes(arg) => (ncalls = 0 /\ result = Panic)

\* C27: every PolyDD a constructor returned has dd and x of equal length, so
\* eval and taylor never make the native routine read x or dd past their
\* ends; new, init and taylor panic before the native call when their slice
\* lengths disagree.
C27_PolyDDLengthsAgree ==
    /\ poly.made => poly.dd = poly.x
    /\ rt \in {"PolyDD::eval", "PolyDD::taylor"} => ~oob
    /\ (rt = "PolyDD::new" /\ arg.x # arg.y) => (ncalls = 0 /\ result = Panic)
    /\ (rt = "PolyDD::init" /\ (arg.dd # arg.x \/ arg.x # arg.y)) =>
          (ncalls = 0 /\ result = Panic)
    /\ (rt = "PolyDD::taylor" /\ (arg.c # arg.self_dd \/ arg.w # arg.self_dd)) =>
          (ncalls = 0 /\ result = Panic)

(***************************************************************************)
(* The modified-Givens parameter.                                          *)
(***************************************************************************)
\* the flag of each variant
HFlag(k) ==
    CASE k = "Full" -> -1 [] k = "OffDiag" -> 0 [] k = "Diag" -> 1 [] k = "Id" -> -2

\* C28: the array rotm builds from h has 5 entries, the flag of h's variant
\* first, and the flag dispatch of rotmg decodes it back to h; the dispatch
\* maps each of the flags -1, 0, 1, -2 to exactly one variant and panics on
\* any other flag.
C28_GivensRoundTrip ==
    /\ pcGiv \in {"built", "done"} => (Len(gp) = 5 /\ gp[1] = HFlag(gh.kind))
    /\ pcGiv = "done" => gh2 = gh
    /\ pcGiv = "decoded" =>
          IF gp[1] \in {-1, 0, 1, -2}
          THEN gh2 \in HValues /\ HFlag(gh2.kind) = gp[1]
          ELSE gh2 = H_Panic

\* OffDiag { h21: 1, h12: -1 } became [0, 1, 1, -1, 1] and came back
C28_Witness ==
    /\ pcGiv = "done"
    /\ gh = H_OffDiag(1, -1)
    /\ gp = <<0, 1, 1, -1, 1>>
    /\ gh2 = H_OffDiag(1, -1)

(***************************************************************************)
(* The registry after sequential handler calls.                            *)
(***************************************************************************)
\* C29: when set_handler and set_handler_off are called one after the other,
\* after every completed call the native hook is the adapter
\* inner_error_handler if and only if a callback is stored in CALLBACK.
C29_AdapterIffCallback ==
    (gsl_error_handler = "inner_error_handler") <=> (CALLBACK # None)

\* set_handler_off() and then set_handler(Some(g)): g stored, adapter installed
C29_Witness ==
    /\ IsOff(prevCall) /\ IsSetSome(lastCall)
    /\ CALLBACK = "g"
    /\ gsl_error_handler = "inner_error_handler"

====
